---- MODULE Spec2Model ----
(***************************************************************************)
(* A model of the scrape-and-reconcile pipeline of src/index.js:           *)
(*   - withLock, the Redis lock around every crawl job        (SpecLock)   *)
(*   - the persistence and push part of scrapeNewsByLang      (SpecPush)   *)
(*   - the pagination loop of scrapeNewsByLang                (SpecNews)   *)
(*   - scrapePageForSymbol / scrapeAllDataForSymbol           (SpecHist)   *)
(*   - retryRequest                                           (SpecRetry)  *)
(*   - parsePublishedAt, ensureDate, buildNewsRow             (SpecDate)   *)
(*   - normalizeAuthorInitial, toAuthorName                   (SpecAuthor) *)
(*   - the findOrCreate loop of scrapeAllHistoricalData       (SpecBars)   *)
(*   - the row loop of the calendar table parser              (SpecCalRows) *)
(*   - enqueueCal / runCalQueue with lock:cal:GLOBAL          (SpecCal)    *)
(*   - getBrowser / withPage                                  (SpecBrowser) *)
(*   - the calendar snapshot and its read route               (SpecSnap)   *)
(*   - repeated runs over a fixed listing               (SpecConvergeFair) *)
(*   - looksIndonesian and the language filter          (SpecLangFilter)   *)
(*   - getAllSymbols                                          (SpecSym)    *)
(*   - the row callback of scrapePageForSymbol                (SpecTable)  *)
(* Each part has its own specification over the shared variables; the      *)
(* variables of the other parts stay at their initial values.              *)
(***************************************************************************)
EXTENDS Integers, Sequences, FiniteSets, TLC

VARIABLES
  \* ---- withLock (one job key) ----
  lock,        \* the Redis entry at the job key: NoLock or [tok, ttl]
  lpc,         \* lpc[c]: where the withLock call c stands
  fnOut,       \* fnOut[c]: how fn() of call c settled: "none" | "returned" | "threw"
  lres,        \* lres[c]: how the call settled: "none" | "skipped" | "resolved" | "rejected"
  fnRuns,      \* history: the number of executions of fn started so far
  delLog,      \* history: <<caller, token deleted>> of every DEL that removed an entry
  lapsed,      \* history: an entry ran out of TTL (it was still stored, so not yet released)
  \* ---- persistence and push of scrapeNewsByLang ----
  table,       \* table[k]: the number of rows of the news table with link k
  marker,      \* the keys k for which push:sent:<k> exists in Redis
  envFlags,    \* process.env: [catLang, legacy] (FCM_TOPIC_CATEGORY_LANG, FCM_COMPAT_GLOBAL_TOPIC)
  runLang,     \* the lang argument of the runs
  rows,        \* rows[r]: the links of the rows that run r has to persist, in order
  rpc,         \* rpc[r]: where run r stands in the persistence loop
  rpath,       \* rpath[r]: "batch" (bulkCreate succeeded) | "fallback" (per-row writes)
  rb,          \* rb[r]: the loop variable i, first row of the current chunk
  ri,          \* ri[r]: the row of the chunk being handled
  rowState,    \* history, rowState[r][k]: "pending" | "written" | "writeFailed"
  pushState,   \* history, pushState[r][k]: "none" | "dup" | "claimed"
  sendLog,     \* history: every fcm.send, [run, link, topic, ok]
  expiries,    \* history: the number of markers that ran out of TTL
  bulkFailed,  \* history, bulkFailed[r]: the links of the chunks whose bulkCreate rejected
  \* ---- pagination loop of scrapeNewsByLang ----
  nlang,       \* the lang argument
  npc,         \* "page" (inside the while loop) | "done" (all categories crawled)
  ncat,        \* index of the current category in newsCategories
  start,       \* the offset of the next list page
  emptyStreak,
  existingLinks,
  seenLinks,
  allNewItems,
  catReqs,     \* history: list pages requested for the current category
  catEmpty,    \* history: every page of the current category came without items
  emptyCatPages, \* history: catReqs of the finished categories whose pages were all empty
  lastFailure, \* history: what failed at the page handled last: "none" | "page" | "detail"
  \* ---- scrapeAllDataForSymbol ----
  hpc,         \* "loop" | "fetch" | "done"
  hstart,      \* start
  pageCount,
  consecutiveEmptyPages,
  allData,     \* allData.length
  maxRows,     \* the maxRows argument
  retries,     \* the retries argument of the scrapePageForSymbol call in flight
  hReqs,       \* history: scrapePageForSymbol calls made by the driver
  hAllEmpty,   \* history: every page so far came back empty
  \* ---- runParallelWithLimit over the pages of one scrapeNewsByLang run ----
  ppc,         \* "idle" (no call) | "race" (await Promise.race) | "all" (await Promise.all)
  ptodo,       \* tasks of the current call that the for loop has not started yet
  executing,   \* executing.size: promises of the current call that have not settled
  orphans,     \* tasks still running whose call has already rejected
  poolPages,   \* history: the calls made so far
  \* ---- the fresh filter of scrapeNewsByLang over the list pages of one run ----
  knownLinks,  \* existingLinks: the links persisted when the run started
  runSeen,     \* seenLinks
  pageItems,   \* items: the links of the items parsed from the list page handled last
  fresh,       \* fresh: the items of that page that go to the detail tasks
  \* ---- retryRequest(fn, retries, delayMs): one call with its recursive calls ----
  rtPc,        \* "try" (await fn()) | "delay" (await delay(delayMs)) | "resolved" | "rejected"
  rtRetries,   \* retries of the innermost call
  rtDelayMs,   \* delayMs of the innermost call
  rtArgs,      \* the arguments of the outermost call: [retries, delayMs]
  rtHist,      \* history: how every invocation of fn settled: "ok" or the error it threw
  rtWaits,     \* history: the delays waited, in order
  rtThrown,    \* the invocation of fn whose error the call rejected with (0: none)
  \* ---- the publish timestamp of one news item, from the list page to its row ----
  dpc,         \* "card" (list page parsed) | "item" (extractNewsItem done) | "row" (buildNewsRow done)
  dDate,       \* n.date: the display-date text of the card
  dLang,       \* n.language
  dNow,        \* the clock, in minutes since the epoch, read by new Date()
  dPublishedAt, \* n.publishedAt
  dRowPub,     \* published_at of the row
  \* ---- the author of one news item ----
  apc,         \* "raw" | "author" (normalizeAuthorInitial done) | "named" (toAuthorName done)
  aRaw,        \* the candidate handed to normalizeAuthorInitial
  aAuthor,     \* author
  aName,       \* author_name
  \* ---- historical_data and the save loops of scrapeAllHistoricalData ----
  bars,        \* bars[k]: the rows of historical_data with (symbol, date) k, each its values
  barData,     \* data: the (symbol, date) of the rows scraped, in order
  bpc,         \* bpc[r]: "find" | "create" (inside findOrCreate) | "done"
  bi,          \* bi[r]: the row of data that run r is at
  \* ---- the row loop of the calendar table parser, over one tbody ----
  trs,         \* rows: the rows of the tbody, each [cells, colspan, figures]
  ti,          \* the row that the for loop handles next
  calOut,      \* out: the events, each [row, details]: its tr and the tr of its details (0: none)
  lastEvent,   \* lastEvent, as an index of out (0: null)
  \* ---- the calendar queue of every instance and the lock lock:cal:GLOBAL ----
  calQueue,    \* calQueue[i]: the tasks waiting, each [id, origin]
  calRunning,  \* calRunning[i]
  calActive,   \* calActive[i]: the tasks whose taskFn() has been called and has not settled,
               \* each [id, origin, scraping]
  calLock,     \* the instance whose withLock call holds lock:cal:GLOBAL (0: not set)
  calSubmitted, \* history, calSubmitted[i]: the ids of the tasks given to enqueueCal, in order
  calStarted,  \* history, calStarted[i]: the ids of the tasks started, in order
  calSettled,  \* history, calSettled[i]: the promises of enqueueCal settled, in order, each
               \* [id, task, promise]: how taskFn() settled and how the promise did
  \* ---- getBrowser and the withPage calls of one process ----
  browserPromise, \* _browserPromise, as an index of launched (0: null)
  launched,    \* launched[n]: the promise of the n-th puppeteer.launch: "pending" |
               \* "resolved" | "rejected"
  wpc,         \* wpc[c]: where the withPage call c stands: "idle" | "getBrowser" (awaiting) |
               \* "page" (inside run(page)) | "done" (resolved) | "threw" (rejected by
               \* run) | "failed" (rejected by the launch)
  wBrowser,    \* wBrowser[c]: the promise getBrowser returned to c (0: none yet)
  wPages,      \* the calls whose page is open in the browser
  \* ---- the calendar snapshot of one period and its read route ----
  snap,        \* calendarCache: calendarCache[period], as [run, pages]: the scrape that produced the
               \* snapshot and the pages of rows in it (run 0: the empty snapshot of the start);
               \* key: the payload at calendar:<period> (NoSnapKey: not stored);
               \* pc: "idle" | "pages" (scrapeCalendarPaged is inside its page loop);
               \* run: the number of scrapes started; p: p of the page loop; all: the pages of rows
               \* in all; origin: who enqueued the scrape, "scheduler" | "read";
               \* ok: result.ok of the last scrape, "none" | "ok" | "failed";
               \* resp: the last answer of the read route, [status, snap]
  \* ---- repeated runs of scrapeNewsByLang over one category of a fixed listing ----
  cv,          \* persisted: the links of the rows of the news table;
               \* pc: "idle" (between runs) | "pages" (in the while loop) | "save";
               \* page: the list page that start points at (start / PAGE_SIZE + 1);
               \* emptyStreak, existingLinks, seenLinks: those of the run;
               \* allNewItems: the links of allNewItems;
               \* failures: history, the list fetches that failed after their retries
  \* ---- the language filter on one detail-fetched item ----
  lf,          \* lang: lang of the crawl; item: [detail, summary, title], each a text;
               \* pc: "detailed" (in detailed) | "pushed" (the filter has run);
               \* kept: the item is in what is pushed to allNewItems
  \* ---- getAllSymbols ----
  sym,         \* cachedSymbols: [stored, list] (stored FALSE: null); cachedSymbolsTimestamp;
               \* clock: Date.now(); pc[c]: the call c is "idle" | "fetch" (awaiting axios.get) |
               \* "done" | "threw"; now[c]: now of the call c; ret[c]: what the call c returned;
               \* fetches: history, the requests for the symbol page sent so far
  \* ---- the row callback of scrapePageForSymbol on one row ----
  tab          \* row: the row, [colspan, cells], cells the texts of its td;
               \* pc: "row" | "done"; result: the rows pushed to result

lockVars == <<lock, lpc, fnOut, lres, fnRuns, delLog, lapsed>>
pushVars == <<table, marker, envFlags, runLang, rows, rpc, rpath, rb, ri, rowState, pushState,
              sendLog, expiries, bulkFailed>>
newsVars == <<nlang, npc, ncat, start, emptyStreak, existingLinks, seenLinks, allNewItems,
              catReqs, catEmpty, emptyCatPages, lastFailure>>
histVars == <<hpc, hstart, pageCount, consecutiveEmptyPages, allData, maxRows, retries,
              hReqs, hAllEmpty>>
poolVars == <<ppc, ptodo, executing, orphans, poolPages>>
filterVars == <<knownLinks, runSeen, pageItems, fresh>>
retryVars == <<rtPc, rtRetries, rtDelayMs, rtArgs, rtHist, rtWaits, rtThrown>>
coreVars == <<lockVars, pushVars, newsVars, histVars, poolVars, filterVars>>
dateVars == <<dpc, dDate, dLang, dNow, dPublishedAt, dRowPub>>
authorVars == <<apc, aRaw, aAuthor, aName>>
barVars == <<bars, barData, bpc, bi>>
calRowVars == <<trs, ti, calOut, lastEvent>>
calVars == <<calQueue, calRunning, calActive, calLock, calSubmitted, calStarted, calSettled>>
browserVars == <<browserPromise, launched, wpc, wBrowser, wPages>>
sideVars == <<retryVars, dateVars, authorVars, barVars, calRowVars, calVars, browserVars>>
snapVars == <<snap>>
convergeVars == <<cv>>
langFilterVars == <<lf>>
symVars == <<sym>>
tableVars == <<tab>>
lateVars == <<snapVars, convergeVars, langFilterVars, symVars, tableVars>>
vars == <<coreVars, sideVars, lateVars>>

\* the frame of each part: a step of one part leaves the other parts alone
OnlyLock == UNCHANGED <<pushVars, newsVars, histVars, poolVars, filterVars, sideVars, lateVars>>
OnlyPush == UNCHANGED <<lockVars, newsVars, histVars, poolVars, filterVars, sideVars, lateVars>>
OnlyNews == UNCHANGED <<lockVars, pushVars, histVars, poolVars, filterVars, sideVars, lateVars>>
OnlyHist == UNCHANGED <<lockVars, pushVars, newsVars, poolVars, filterVars, sideVars, lateVars>>
OnlyPool == UNCHANGED <<lockVars, pushVars, newsVars, histVars, filterVars, sideVars, lateVars>>
OnlyFilter == UNCHANGED <<lockVars, pushVars, newsVars, histVars, poolVars, sideVars, lateVars>>
OnlyRetry ==
  UNCHANGED <<coreVars, lateVars, dateVars, authorVars, barVars, calRowVars, calVars, browserVars>>
OnlyDate ==
  UNCHANGED <<coreVars, lateVars, retryVars, authorVars, barVars, calRowVars, calVars, browserVars>>
OnlyAuthor ==
  UNCHANGED <<coreVars, lateVars, retryVars, dateVars, barVars, calRowVars, calVars, browserVars>>
OnlyBars ==
  UNCHANGED <<coreVars, lateVars, retryVars, dateVars, authorVars, calRowVars, calVars, browserVars>>
OnlyCalRows ==
  UNCHANGED <<coreVars, lateVars, retryVars, dateVars, authorVars, barVars, calVars, browserVars>>
OnlyCal ==
  UNCHANGED <<coreVars, lateVars, retryVars, dateVars, authorVars, barVars, calRowVars, browserVars>>
OnlyBrowser ==
  UNCHANGED <<coreVars, lateVars, retryVars, dateVars, authorVars, barVars, calRowVars, calVars>>
OnlySnap ==
  UNCHANGED <<coreVars, sideVars, convergeVars, langFilterVars, symVars, tableVars>>
OnlyConverge ==
  UNCHANGED <<coreVars, sideVars, snapVars, langFilterVars, symVars, tableVars>>
OnlyLangFilter ==
  UNCHANGED <<coreVars, sideVars, snapVars, convergeVars, symVars, tableVars>>
OnlySym ==
  UNCHANGED <<coreVars, sideVars, snapVars, convergeVars, langFilterVars, tableVars>>
OnlyTable ==
  UNCHANGED <<coreVars, sideVars, snapVars, convergeVars, langFilterVars, symVars>>

(***************************************************************************)
(* Bounds of the model.                                                    *)
(***************************************************************************)
NumCalls == 3
\* withLock invocations on the key (start-up calls and setInterval ticks of all instances)
MaxTtl == 2
\* ttlSeconds, counted in clock ticks
NumRuns == 2
\* runs of scrapeNewsByLang that reach the persistence part (any instances)
NumLinks == 3
\* distinct article links
NumNewsLinks == 2
\* distinct article links on the list pages that the pagination loop is fed
MaxExpiries == 1
\* push markers that run out of TTL
MaxPageLen == 2
\* items parsed from one list page
NumCats == 2
\* categories of newsCategories (8 in the source) that the model follows
SmallMaxRows == 12
\* a maxRows argument small enough for the row ceiling to be met
MaxEndlessPages == 202
\* list pages that the endless source serves for one category
MaxFresh == 5
\* fresh items of one list page (up to 10 in the source)
MaxPoolPages == 4
\* list pages with fresh items in one run
MaxRetriesArg == 3
\* the largest retries argument of a retryRequest call
NumBarKeys == 2
\* distinct (symbol, date) pairs
NumBarRuns == 2
\* runs of scrapeAllHistoricalData (of any instance) that save rows
MaxBarRows == 2
\* rows scraped by one run
MaxCalRows == 3
\* rows of the tbody of the calendar table
NumInsts == 2
\* server instances
MaxCalTasks == 4
\* calendar tasks given to enqueueCal, over all instances
NumPageCalls == 4
\* withPage calls of one process

Calls == 1 .. NumCalls
Runs == 1 .. NumRuns
Links == 1 .. NumLinks
NewsLinks == 1 .. NumNewsLinks
Langs == {"en", "id"}

(***************************************************************************)
(* withLock(key, ttlSeconds, fn)                                           *)
(***************************************************************************)
NoLock == [tok |-> 0, ttl |-> 0]

\* const token = `${Date.now()}-${Math.random()}`: a value no other call has
Token(c) == c

\* how the async function settles once fn() has settled and the finally block is through
Settled(out) == IF out = "threw" THEN "rejected" ELSE "resolved"

LockInit ==
  /\ lock = NoLock
  /\ lpc = [c \in Calls |-> "idle"]
  /\ fnOut = [c \in Calls |-> "none"]
  /\ lres = [c \in Calls |-> "none"]
  /\ fnRuns = 0
  /\ delLog = {}
  /\ lapsed = FALSE

\* a SET without NX: the entry is overwritten and fn always runs
LockSetNoNX(c, ttl) ==
  /\ lpc[c] = "idle"
  /\ lock' = [tok |-> Token(c), ttl |-> ttl]
  /\ lpc' = [lpc EXCEPT ![c] = "fn"]
  /\ fnRuns' = fnRuns + 1
  /\ UNCHANGED <<fnOut, lres, delLog, lapsed>>

\* const ok = await redis.set(key, token, 'NX', 'EX', ttlSeconds); if (!ok) return;
LockSet(c, ttl) ==
  /\ lpc[c] = "idle"
  /\ IF lock = NoLock
       THEN /\ lock' = [tok |-> Token(c), ttl |-> ttl]
            /\ lpc' = [lpc EXCEPT ![c] = "fn"]
            /\ fnRuns' = fnRuns + 1
            /\ UNCHANGED lres
       ELSE /\ lpc' = [lpc EXCEPT ![c] = "done"]
            /\ lres' = [lres EXCEPT ![c] = "skipped"]
            /\ UNCHANGED <<lock, fnRuns>>
  /\ UNCHANGED <<fnOut, delLog, lapsed>>

\* a withLock without the finally block: a throwing fn leaves the entry behind
FnSettleNoFinally(c, out) ==
  /\ lpc[c] = "fn"
  /\ fnOut' = [fnOut EXCEPT ![c] = out]
  /\ IF out = "threw"
       THEN /\ lpc' = [lpc EXCEPT ![c] = "done"]
            /\ lres' = [lres EXCEPT ![c] = "rejected"]
       ELSE /\ lpc' = [lpc EXCEPT ![c] = "get"]
            /\ UNCHANGED lres
  /\ UNCHANGED <<lock, fnRuns, delLog, lapsed>>

\* try { await fn(); } finally { ... }: fn returns or throws, the finally block is entered
FnSettle(c, out) ==
  /\ lpc[c] = "fn"
  /\ fnOut' = [fnOut EXCEPT ![c] = out]
  /\ lpc' = [lpc EXCEPT ![c] = "get"]
  /\ UNCHANGED <<lock, lres, fnRuns, delLog, lapsed>>

\* const v = await redis.get(key); if (v === token) ...
LockGet(c) ==
  /\ lpc[c] = "get"
  /\ IF lock # NoLock /\ lock.tok = Token(c)
       THEN /\ lpc' = [lpc EXCEPT ![c] = "del"]
            /\ UNCHANGED lres
       ELSE /\ lpc' = [lpc EXCEPT ![c] = "done"]
            /\ lres' = [lres EXCEPT ![c] = Settled(fnOut[c])]
  /\ UNCHANGED <<lock, fnOut, fnRuns, delLog, lapsed>>

\* ... await redis.del(key): deletes whatever is stored at the key by now
LockDel(c) ==
  /\ lpc[c] = "del"
  /\ delLog' = IF lock = NoLock THEN delLog ELSE delLog \cup {<<c, lock.tok>>}
  /\ lock' = NoLock
  /\ lpc' = [lpc EXCEPT ![c] = "done"]
  /\ lres' = [lres EXCEPT ![c] = Settled(fnOut[c])]
  /\ UNCHANGED <<fnOut, fnRuns, lapsed>>

\* the clock: the entry's remaining TTL (EX ttlSeconds) runs down, at 0 Redis drops it
LockTick ==
  /\ lock # NoLock
  /\ IF lock.ttl = 1
       THEN lock' = NoLock /\ lapsed' = TRUE
       ELSE lock' = [lock EXCEPT !.ttl = @ - 1] /\ UNCHANGED lapsed
  /\ UNCHANGED <<lpc, fnOut, lres, fnRuns, delLog>>

LockNext ==
  \/ OnlyLock /\ \E c \in Calls, ttl \in 1 .. MaxTtl : LockSet(c, ttl)
  \/ OnlyLock /\ \E c \in Calls, out \in {"returned", "threw"} : FnSettle(c, out)
  \/ OnlyLock /\ \E c \in Calls : LockGet(c)
  \/ OnlyLock /\ \E c \in Calls : LockDel(c)
  \/ OnlyLock /\ LockTick

(***************************************************************************)
(* scrapeNewsByLang: persistence of the rows of a run and push of the new  *)
(* items (src/index.js 624-708), with alreadyPushed and pushNews.          *)
(***************************************************************************)
\* const BATCH_SIZE = 150, scaled down so that a run has several chunks
BATCH_SIZE == 2

\* const rows = allNewItems.map(buildNewsRow): the rows of run r, by link
Rows(r) == rows[r]

\* What the runs carry.  Either every run found the same new item (the runs loaded
\* the persisted links before any of them wrote), or one run found all the items and
\* the other runs found nothing new (if (allNewItems.length > 0) is false for them).
AllRows == [i \in 1 .. NumLinks |-> i]
RowPlans ==
  {[r \in Runs |-> <<k>>] : k \in Links}
    \cup {[r \in Runs |-> IF r = 1 THEN AllRows ELSE <<>>]}

\* the category text of the item at link k, as the set of topic keywords it contains
Category(k) ==
  CASE k % 3 = 1 -> {"crypto"}
    [] k % 3 = 2 -> {}
    [] OTHER -> {"index", "economy"}

topicBaseFor(category) ==
  IF "commodity" \in category THEN "news_commodity"
  ELSE IF "currenc" \in category THEN "news_currencies"
  ELSE IF "index" \in category THEN "news_index"
  ELSE IF "crypto" \in category THEN "news_crypto"
  ELSE IF "economy" \in category \/ "fiscal" \in category THEN "news_economy"
  ELSE IF "analysis" \in category THEN "news_analysis"
  ELSE "news_all"

resolveLang(l) == IF l = "en" THEN "en" ELSE "id"

\* pushNews: the three topics, `news_${lang}`, `${baseTopic}_${lang}`, baseTopic
topicLangOnly(language) == [base |-> "news", lang |-> resolveLang(language)]
topicCatLang(category, language) ==
  [base |-> topicBaseFor(category), lang |-> resolveLang(language)]
topicLegacy(category) == [base |-> topicBaseFor(category), lang |-> ""]

\* a table without the unique index: every write adds a row
InsertAlways(t, ks) == [k \in Links |-> IF k \in ks THEN t[k] + 1 ELSE t[k]]

\* bulkCreate(..., { updateOnDuplicate: UPDATE_COLS }) on the table with its unique
\* index on the link: a row is inserted for a link that has none, the row of a link
\* that has one is updated
Upsert(t, ks) == [k \in Links |-> IF k \in ks /\ t[k] = 0 THEN 1 ELSE t[k]]

\* the links that have a row in the news table
db == {k \in Links : table[k] > 0}

\* const chunk = safeRows.slice(i, i + BATCH_SIZE): its last row
ChunkEnd(r) == IF rb[r] + BATCH_SIZE - 1 < Len(Rows(r)) THEN rb[r] + BATCH_SIZE - 1
               ELSE Len(Rows(r))
ChunkLinks(r) == {Rows(r)[j] : j \in rb[r] .. ChunkEnd(r)}
CurLink(r) == Rows(r)[ri[r]]

PushInit ==
  /\ table = [k \in Links |-> 0]
  /\ marker = {}
  /\ envFlags \in [catLang : BOOLEAN, legacy : BOOLEAN]
  /\ runLang \in Langs
  /\ rows \in RowPlans
  /\ rpc = [r \in Runs |-> IF rows[r] = <<>> THEN "done" ELSE "bulk"]
  /\ rpath = [r \in Runs |-> "batch"]
  /\ rb = [r \in Runs |-> 1]
  /\ ri = [r \in Runs |-> 1]
  /\ rowState = [r \in Runs |-> [k \in Links |-> "pending"]]
  /\ pushState = [r \in Runs |-> [k \in Links |-> "none"]]
  /\ sendLog = {}
  /\ expiries = 0
  /\ bulkFailed = [r \in Runs |-> {}]

\* the end of the body of `for (const r of chunk)`: the next row of the chunk, after
\* the last one the next chunk (i += BATCH_SIZE), after the last chunk the run is over
NextRow(r) ==
  IF ri[r] < ChunkEnd(r)
    THEN /\ ri' = [ri EXCEPT ![r] = @ + 1]
         /\ rpc' = [rpc EXCEPT ![r] = IF rpath[r] = "batch" THEN "claim" ELSE "rowWrite"]
         /\ UNCHANGED <<rb, rpath>>
    ELSE /\ rb' = [rb EXCEPT ![r] = @ + BATCH_SIZE]
         /\ ri' = [ri EXCEPT ![r] = rb[r] + BATCH_SIZE]
         /\ rpc' = [rpc EXCEPT ![r] = IF rb[r] + BATCH_SIZE <= Len(Rows(r)) THEN "bulk"
                                       ELSE "done"]
         /\ UNCHANGED rpath

\* await News.bulkCreate(chunk, { updateOnDuplicate }): resolves, or rejects into the
\* per-row fallback
BulkCreate(r, ok) ==
  /\ rpc[r] = "bulk"
  /\ ri' = [ri EXCEPT ![r] = rb[r]]
  /\ IF ok
       THEN /\ table' = Upsert(table, ChunkLinks(r))
            /\ rowState' = [rowState EXCEPT ![r] =
                 [k \in Links |-> IF k \in ChunkLinks(r) THEN "written" ELSE @[k]]]
            /\ rpath' = [rpath EXCEPT ![r] = "batch"]
            /\ rpc' = [rpc EXCEPT ![r] = "claim"]
            /\ UNCHANGED bulkFailed
       ELSE /\ rpath' = [rpath EXCEPT ![r] = "fallback"]
            /\ rpc' = [rpc EXCEPT ![r] = "rowWrite"]
            /\ bulkFailed' = [bulkFailed EXCEPT ![r] = @ \cup ChunkLinks(r)]
            /\ UNCHANGED <<table, rowState>>
  /\ UNCHANGED <<marker, envFlags, runLang, rows, rb, pushState, sendLog, expiries>>

\* a fallback that goes on to the push although the row's write was rejected
RowWriteThenPushAnyway(r, ok) ==
  /\ rpc[r] = "rowWrite"
  /\ table' = IF ok THEN Upsert(table, {CurLink(r)}) ELSE table
  /\ rowState' = [rowState EXCEPT ![r][CurLink(r)] = IF ok THEN "written" ELSE "writeFailed"]
  /\ rpc' = [rpc EXCEPT ![r] = "claim"]
  /\ UNCHANGED <<marker, envFlags, runLang, rows, rpath, rb, ri, pushState, sendLog, expiries,
                 bulkFailed>>

\* a fallback loop without the try/catch around the row: the first row that fails ends
\* the run
RowWriteAbortsRun(r, ok) ==
  /\ rpc[r] = "rowWrite"
  /\ IF ok
       THEN /\ table' = Upsert(table, {CurLink(r)})
            /\ rowState' = [rowState EXCEPT ![r][CurLink(r)] = "written"]
            /\ rpc' = [rpc EXCEPT ![r] = "claim"]
       ELSE /\ rowState' = [rowState EXCEPT ![r][CurLink(r)] = "writeFailed"]
            /\ rpc' = [rpc EXCEPT ![r] = "done"]
            /\ UNCHANGED table
  /\ UNCHANGED <<marker, envFlags, runLang, rows, rpath, rb, ri, pushState, sendLog, expiries,
                 bulkFailed>>

\* fallback: await News.bulkCreate([r], ...); a rejection is caught, logged ("Row
\* failed") and the loop goes on with the next row
RowWrite(r, ok) ==
  /\ rpc[r] = "rowWrite"
  /\ IF ok
       THEN /\ table' = Upsert(table, {CurLink(r)})
            /\ rowState' = [rowState EXCEPT ![r][CurLink(r)] = "written"]
            /\ rpc' = [rpc EXCEPT ![r] = "claim"]
            /\ UNCHANGED <<rb, ri, rpath>>
       ELSE /\ rowState' = [rowState EXCEPT ![r][CurLink(r)] = "writeFailed"]
            /\ NextRow(r)
            /\ UNCHANGED table
  /\ UNCHANGED <<marker, envFlags, runLang, rows, pushState, sendLog, expiries, bulkFailed>>

\* an alreadyPushed that never finds the marker (a SET without NX always answers OK)
AlreadyPushedNoNX(r) ==
  /\ rpc[r] = "claim"
  /\ marker' = marker \cup {CurLink(r)}
  /\ pushState' = [pushState EXCEPT ![r][CurLink(r)] = "claimed"]
  /\ rpc' = [rpc EXCEPT ![r] = "find"]
  /\ UNCHANGED <<table, envFlags, runLang, rows, rpath, rb, ri, rowState, sendLog, expiries,
                 bulkFailed>>

\* const key = r.link || ...; if (await alreadyPushed(redis, key)) continue;
\* alreadyPushed: redis.set(`push:sent:${key}`, '1', 'NX', 'EX', 3 days), ok === null
AlreadyPushed(r) ==
  /\ rpc[r] = "claim"
  /\ IF CurLink(r) \in marker
       THEN /\ pushState' = [pushState EXCEPT ![r][CurLink(r)] = "dup"]
            /\ NextRow(r)
            /\ UNCHANGED marker
       ELSE /\ marker' = marker \cup {CurLink(r)}
            /\ pushState' = [pushState EXCEPT ![r][CurLink(r)] = "claimed"]
            /\ rpc' = [rpc EXCEPT ![r] = "find"]
            /\ UNCHANGED <<rb, ri, rpath>>
  /\ UNCHANGED <<table, envFlags, runLang, rows, rowState, sendLog, expiries, bulkFailed>>

\* const rowDb = await News.findOne({ where: { link: r.link } }); if (rowDb?.id) pushNews
FindOne(r) ==
  /\ rpc[r] = "find"
  /\ IF CurLink(r) \in db
       THEN rpc' = [rpc EXCEPT ![r] = "sendLang"] /\ UNCHANGED <<rb, ri, rpath>>
       ELSE NextRow(r)
  /\ UNCHANGED <<table, marker, envFlags, runLang, rows, rowState, pushState, sendLog, expiries,
                 bulkFailed>>

\* where pushNews goes after a send that resolved: the next topic that is switched on
AfterSend(r, sent) ==
  IF sent = "lang" /\ envFlags.catLang
    THEN rpc' = [rpc EXCEPT ![r] = "sendCat"] /\ UNCHANGED <<rb, ri, rpath>>
  ELSE IF sent \in {"lang", "cat"} /\ envFlags.legacy
    THEN rpc' = [rpc EXCEPT ![r] = "sendLegacy"] /\ UNCHANGED <<rb, ri, rpath>>
  ELSE NextRow(r)

Topic(r, which) ==
  CASE which = "lang" -> topicLangOnly(runLang)
    [] which = "cat" -> topicCatLang(Category(CurLink(r)), runLang)
    [] OTHER -> topicLegacy(Category(CurLink(r)))

\* a dispatcher that rolls the claim back when the delivery fails
SendReleasingMarker(r, which, ok) ==
  /\ rpc[r] = (CASE which = "lang" -> "sendLang" [] which = "cat" -> "sendCat"
                 [] OTHER -> "sendLegacy")
  /\ sendLog' = sendLog \cup
       {[run |-> r, link |-> CurLink(r), topic |-> Topic(r, which), ok |-> ok]}
  /\ IF ok THEN AfterSend(r, which) /\ UNCHANGED marker
           ELSE NextRow(r) /\ marker' = marker \ {CurLink(r)}
  /\ UNCHANGED <<table, envFlags, runLang, rows, rowState, pushState, expiries, bulkFailed>>

\* a pushNews that catches each send's rejection by itself and goes on to the next topic
SendEachOnItsOwn(r, which, ok) ==
  /\ rpc[r] = (CASE which = "lang" -> "sendLang" [] which = "cat" -> "sendCat"
                 [] OTHER -> "sendLegacy")
  /\ sendLog' = sendLog \cup
       {[run |-> r, link |-> CurLink(r), topic |-> Topic(r, which), ok |-> ok]}
  /\ AfterSend(r, which)
  /\ UNCHANGED <<table, marker, envFlags, runLang, rows, rowState, pushState, expiries, bulkFailed>>

\* pushNews: await fcm.send({ topic, ...commonMsg }); a rejection leaves pushNews and is
\* caught by the row's try/catch ("push after insert failed"), the loop goes on
Send(r, which, ok) ==
  /\ rpc[r] = (CASE which = "lang" -> "sendLang" [] which = "cat" -> "sendCat"
                 [] OTHER -> "sendLegacy")
  /\ sendLog' = sendLog \cup
       {[run |-> r, link |-> CurLink(r), topic |-> Topic(r, which), ok |-> ok]}
  /\ IF ok THEN AfterSend(r, which) ELSE NextRow(r)
  /\ UNCHANGED <<table, marker, envFlags, runLang, rows, rowState, pushState, expiries, bulkFailed>>

\* a marker push:sent:<k> reaches the end of its 3 days
MarkerExpire(k) ==
  /\ k \in marker
  /\ expiries < MaxExpiries
  /\ marker' = marker \ {k}
  /\ expiries' = expiries + 1
  /\ UNCHANGED <<table, envFlags, runLang, rows, rpc, rpath, rb, ri, rowState, pushState, sendLog,
                 bulkFailed>>

PushNext ==
  \/ OnlyPush /\ \E r \in Runs, ok \in BOOLEAN : BulkCreate(r, ok)
  \/ OnlyPush /\ \E r \in Runs, ok \in BOOLEAN : RowWrite(r, ok)
  \/ OnlyPush /\ \E r \in Runs : AlreadyPushed(r)
  \/ OnlyPush /\ \E r \in Runs : FindOne(r)
  \/ OnlyPush /\ \E r \in Runs, which \in {"lang", "cat", "legacy"}, ok \in BOOLEAN : Send(r, which, ok)
  \/ OnlyPush /\ \E k \in Links : MarkerExpire(k)

(***************************************************************************)
(* scrapeNewsByLang: the pagination loop over newsCategories               *)
(* (src/index.js 539-622).                                                 *)
(***************************************************************************)
NEWS_PAGE_SIZE == 10
STREAK_LIMIT == 3

\* what one list page parses to: its items' links, in document order
PageItems == UNION {[1 .. n -> NewsLinks] : n \in 0 .. MaxPageLen}

\* a filter that looks at the in-run set only
FreshIgnoringPersisted(items, existing, seen) == SelectSeq(items, LAMBDA k : k \notin seen)

\* items.filter((it) => !existingLinks.has(it.link) && !seenLinks.has(it.link))
FreshOf(items, existing, seen) ==
  SelectSeq(items, LAMBDA k : k \notin existing /\ k \notin seen)
Fresh(items) == FreshOf(items, existingLinks, seenLinks)

Range(s) == {s[i] : i \in 1 .. Len(s)}

NewsInit ==
  /\ nlang \in Langs
  /\ npc = "page"
  /\ ncat = 1
  /\ start = 0
  /\ emptyStreak = 0
  /\ existingLinks \in SUBSET NewsLinks
  /\ seenLinks = {}
  /\ allNewItems = <<>>
  /\ catReqs = 0
  /\ catEmpty = TRUE
  /\ emptyCatPages = {}
  /\ lastFailure = "none"

\* `break`: the while loop of the category is left, the for loop takes the next category
BreakCat(empty) ==
  /\ emptyCatPages' = IF empty THEN emptyCatPages \cup {catReqs + 1} ELSE emptyCatPages
  /\ start' = 0
  /\ emptyStreak' = 0
  /\ catReqs' = 0
  /\ catEmpty' = TRUE
  /\ IF ncat < NumCats THEN ncat' = ncat + 1 /\ UNCHANGED npc
                       ELSE npc' = "done" /\ UNCHANGED ncat

\* start += PAGE_SIZE; the loop goes on with the next page of the category
NextPage(streak, empty) ==
  /\ emptyStreak' = streak
  /\ start' = start + NEWS_PAGE_SIZE
  /\ catReqs' = catReqs + 1
  /\ catEmpty' = empty
  /\ UNCHANGED <<npc, ncat, emptyCatPages>>

\* a loop that breaks on the first page without fresh items
BumpStreakBreakAtOnce(empty) == BreakCat(empty)

\* if (++emptyStreak >= 3) break; (else the loop goes on)
BumpStreak(empty) ==
  IF emptyStreak + 1 >= STREAK_LIMIT THEN BreakCat(empty) ELSE NextPage(emptyStreak + 1, empty)

\* a loop without the try/catch: the rejection leaves scrapeNewsByLang, nothing is
\* persisted
PageFailsAborts ==
  /\ npc = "page"
  /\ npc' = "done"
  /\ allNewItems' = <<>>
  /\ lastFailure' = "page"
  /\ UNCHANGED <<nlang, ncat, start, emptyStreak, existingLinks, seenLinks, catReqs, catEmpty,
                 emptyCatPages>>

\* the list page could not be fetched (retryRequest rejected): the catch branch
PageFails ==
  /\ npc = "page"
  /\ BumpStreak(FALSE)
  /\ lastFailure' = "page"
  /\ UNCHANGED <<nlang, existingLinks, seenLinks, allNewItems>>

\* the list page is a WAF/challenge page: isWafOrChallenge($)
PageBlocked ==
  /\ npc = "page"
  /\ BumpStreak(catEmpty)
  /\ lastFailure' = "none"
  /\ UNCHANGED <<nlang, existingLinks, seenLinks, allNewItems>>

\* the list page parses to `items`, none of them fresh
PageStale(items) ==
  /\ npc = "page"
  /\ Fresh(items) = <<>>
  /\ BumpStreak(catEmpty /\ items = <<>>)
  /\ lastFailure' = "none"
  /\ UNCHANGED <<nlang, existingLinks, seenLinks, allNewItems>>

\* if (lang === 'id') detailed = detailed.filter(looksIndonesian): the sets of fresh
\* items the filter can drop
Droppable(items) == IF nlang = "id" THEN SUBSET Range(Fresh(items)) ELSE {{}}

\* a loop that forgets `emptyStreak = 0` in the branch of the fresh items
PageFreshKeepsStreak(items, dropped) ==
  /\ npc = "page"
  /\ Fresh(items) # <<>>
  /\ seenLinks' = seenLinks \cup Range(Fresh(items))
  /\ allNewItems' = allNewItems \o SelectSeq(Fresh(items), LAMBDA k : k \notin dropped)
  /\ NextPage(emptyStreak, FALSE)
  /\ lastFailure' = "none"
  /\ UNCHANGED <<nlang, existingLinks>>

\* the list page has fresh items and their detail tasks all resolve; the items in
\* `dropped` fail looksIndonesian
PageFresh(items, dropped) ==
  /\ npc = "page"
  /\ Fresh(items) # <<>>
  /\ seenLinks' = seenLinks \cup Range(Fresh(items))
  /\ allNewItems' = allNewItems \o SelectSeq(Fresh(items), LAMBDA k : k \notin dropped)
  /\ NextPage(0, FALSE)
  /\ lastFailure' = "none"
  /\ UNCHANGED <<nlang, existingLinks>>

\* the same with the fresh links recorded in seenLinks only after their details arrived
PageDetailFailsUnseen(items) ==
  /\ npc = "page"
  /\ Fresh(items) # <<>>
  /\ seenLinks' = seenLinks
  /\ NextPage(1, FALSE)
  /\ lastFailure' = "detail"
  /\ UNCHANGED <<nlang, existingLinks, allNewItems>>

\* the list page has fresh items and a detail task rejects: emptyStreak is 0 by then,
\* Promise.all rejects into the catch branch
PageDetailFails(items) ==
  /\ npc = "page"
  /\ Fresh(items) # <<>>
  /\ seenLinks' = seenLinks \cup Range(Fresh(items))
  /\ NextPage(1, FALSE)
  /\ lastFailure' = "detail"
  /\ UNCHANGED <<nlang, existingLinks, allNewItems>>

NewsNext ==
  \/ OnlyNews /\ PageFails
  \/ OnlyNews /\ PageBlocked
  \/ OnlyNews /\ \E items \in PageItems : PageStale(items)
  \/ OnlyNews /\ \E items \in PageItems : \E dropped \in Droppable(items) :
                   PageFresh(items, dropped)
  \/ OnlyNews /\ \E items \in PageItems : PageDetailFails(items)

(***************************************************************************)
(* The same loop against a source whose paginator never ends: every list   *)
(* page carries one item with a link that no earlier page carried.         *)
(***************************************************************************)
\* the page-count ceiling of the loop in the version of src/unnamed/part_000
MAX_PAGES_PER_CAT == 200

\* a link outside NewsLinks that is neither persisted nor seen
NovelLink == NumNewsLinks + 1 + Cardinality(seenLinks)

EndlessPage ==
  /\ catReqs < MaxEndlessPages
  /\ PageFresh(<<NovelLink>>, {})

EndlessNext == OnlyNews /\ EndlessPage

(***************************************************************************)
(* scrapePageForSymbol and scrapeAllDataForSymbol (src/index.js 1090-1169) *)
(***************************************************************************)
HIST_PAGE_SIZE == 8
MAX_PAGES_PER_SYMBOL == 500
DEFAULT_MAX_ROWS == 5000
HIST_RETRIES == 3

\* the number of rows one page can parse to
PageLens == {0, 1, HIST_PAGE_SIZE - 1, HIST_PAGE_SIZE, HIST_PAGE_SIZE + 1}

Min(a, b) == IF a < b THEN a ELSE b

HistInit ==
  /\ hpc = "loop"
  /\ hstart = 0
  /\ pageCount = 0
  /\ consecutiveEmptyPages = 0
  /\ allData = 0
  /\ maxRows \in {SmallMaxRows, DEFAULT_MAX_ROWS}
  /\ retries = HIST_RETRIES
  /\ hReqs = 0
  /\ hAllEmpty = TRUE

\* the head of while (true): the two ceilings, then scrapePageForSymbol(cid, start)
HistLoopHead ==
  /\ hpc = "loop"
  /\ IF allData >= maxRows \/ pageCount >= MAX_PAGES_PER_SYMBOL
       THEN hpc' = "done" /\ UNCHANGED <<retries, hReqs>>
       ELSE hpc' = "fetch" /\ retries' = HIST_RETRIES /\ hReqs' = hReqs + 1
  /\ UNCHANGED <<hstart, pageCount, consecutiveEmptyPages, allData, maxRows, hAllEmpty>>

\* the same with allData.push(...pageData), without the slice to what remains
PageResultNoSlice(n) ==
  LET streak == IF n = 0 THEN consecutiveEmptyPages + 1 ELSE 0
      len == allData + n
      stop == \/ n = 0 /\ streak >= 3
              \/ n # 0 /\ len >= maxRows
              \/ n < HIST_PAGE_SIZE
  IN /\ consecutiveEmptyPages' = streak
     /\ allData' = len
     /\ hAllEmpty' = (hAllEmpty /\ n = 0)
     /\ IF stop THEN hpc' = "done" /\ UNCHANGED <<hstart, pageCount>>
                ELSE /\ hpc' = "loop"
                     /\ hstart' = hstart + HIST_PAGE_SIZE
                     /\ pageCount' = pageCount + 1

\* the rest of the loop body once scrapePageForSymbol has returned n rows
PageResult(n) ==
  LET streak == IF n = 0 THEN consecutiveEmptyPages + 1 ELSE 0
      len == IF n = 0 THEN allData ELSE allData + Min(n, maxRows - allData)
      stop == \/ n = 0 /\ streak >= 3
              \/ n # 0 /\ len >= maxRows
              \/ n < HIST_PAGE_SIZE
  IN /\ consecutiveEmptyPages' = streak
     /\ allData' = len
     /\ hAllEmpty' = (hAllEmpty /\ n = 0)
     /\ IF stop THEN hpc' = "done" /\ UNCHANGED <<hstart, pageCount>>
                ELSE /\ hpc' = "loop"
                     /\ hstart' = hstart + HIST_PAGE_SIZE
                     /\ pageCount' = pageCount + 1

\* the request of scrapePageForSymbol succeeds and the page parses to n rows
\* (0 also when the table is missing)
HistPage(n) ==
  /\ hpc = "fetch"
  /\ PageResult(n)
  /\ UNCHANGED <<maxRows, retries, hReqs>>

\* the request of scrapePageForSymbol throws: retried with retries - 1, after the last
\* retry the page is []
HistPageError ==
  /\ hpc = "fetch"
  /\ IF retries > 0
       THEN /\ retries' = retries - 1
            /\ UNCHANGED <<hpc, hstart, pageCount, consecutiveEmptyPages, allData, hAllEmpty>>
       ELSE PageResult(0) /\ UNCHANGED retries
  /\ UNCHANGED <<maxRows, hReqs>>

HistNext ==
  \/ OnlyHist /\ HistLoopHead
  \/ OnlyHist /\ \E n \in PageLens : HistPage(n)
  \/ OnlyHist /\ HistPageError

(***************************************************************************)
(* runParallelWithLimit(detailTasks, 4), called by scrapeNewsByLang for    *)
(* every list page with fresh items (src/index.js 486-498, 606).  The code *)
(* between two awaits runs without interruption, so the call is always at  *)
(* one of its awaits while a task settles.                                 *)
(***************************************************************************)
DETAIL_LIMIT == 4

PoolInit ==
  /\ ppc = "idle"
  /\ ptodo = 0
  /\ executing = 0
  /\ orphans = 0
  /\ poolPages = 0

\* the for loop from an iteration on, with t tasks left and e promises in `executing`:
\* it starts tasks until executing.size >= limit (await Promise.race) or no task is left
\* (Promise.all)
Started(t, e) == Min(t, DETAIL_LIMIT - e)
Launch(t, e) ==
  /\ executing' = e + Started(t, e)
  /\ ptodo' = t - Started(t, e)
  /\ ppc' = IF e + Started(t, e) >= DETAIL_LIMIT THEN "race" ELSE "all"

\* a list page with n fresh items: runParallelWithLimit(detailTasks, 4) is called
PoolCall(n) ==
  /\ ppc = "idle"
  /\ poolPages < MaxPoolPages
  /\ poolPages' = poolPages + 1
  /\ Launch(n, 0)
  /\ UNCHANGED orphans

\* a task of the current call resolves: p.then(clean) takes it out of `executing`; the
\* race is won and the loop goes on, or Promise.all resolves with the last task
TaskResolves ==
  /\ ppc \in {"race", "all"}
  /\ executing > 0
  /\ IF ppc = "race" THEN Launch(ptodo, executing - 1)
     ELSE /\ executing' = executing - 1
          /\ ppc' = IF executing = 1 THEN "idle" ELSE "all"
          /\ UNCHANGED ptodo
  /\ UNCHANGED <<orphans, poolPages>>

\* a task of the current call rejects (fetchNewsDetailSafe after its retries): the
\* awaited Promise.race or Promise.all rejects, runParallelWithLimit rejects into the
\* catch branch of the page; the tasks not started are dropped, the other tasks in
\* `executing` keep running
TaskRejects ==
  /\ ppc \in {"race", "all"}
  /\ executing > 0
  /\ orphans' = orphans + (executing - 1)
  /\ executing' = 0
  /\ ptodo' = 0
  /\ ppc' = "idle"
  /\ UNCHANGED poolPages

\* a task whose call has rejected settles
OrphanSettles ==
  /\ orphans > 0
  /\ orphans' = orphans - 1
  /\ UNCHANGED <<ppc, ptodo, executing, poolPages>>

PoolNext ==
  \/ OnlyPool /\ \E n \in 1 .. MaxFresh : PoolCall(n)
  \/ OnlyPool /\ TaskResolves
  \/ OnlyPool /\ TaskRejects
  \/ OnlyPool /\ OrphanSettles

(***************************************************************************)
(* The fresh filter by itself (src/index.js 543-545, 568-575): the list    *)
(* pages of a run, one after the other, with the items and the fresh items *)
(* of the page handled last in the state.                                  *)
(***************************************************************************)
FilterPages == UNION {[1 .. n -> Links] : n \in 0 .. MaxPageLen + 1}

FilterInit ==
  /\ knownLinks \in SUBSET Links
  /\ runSeen = {}
  /\ pageItems = <<>>
  /\ fresh = <<>>

\* const fresh = items.filter(...); fresh.forEach((it) => seenLinks.add(it.link));
FilterPage(items) ==
  /\ pageItems' = items
  /\ fresh' = FreshOf(items, knownLinks, runSeen)
  /\ runSeen' = runSeen \cup Range(FreshOf(items, knownLinks, runSeen))
  /\ UNCHANGED knownLinks

FilterNext == OnlyFilter /\ \E items \in FilterPages : FilterPage(items)

(***************************************************************************)
(* retryRequest(fn, retries = 3, delayMs = 500) (src/index.js 266-273).    *)
(* The recursive call takes the place of the call that made it, so one     *)
(* call is followed through its invocations of fn.                         *)
(***************************************************************************)
DEFAULT_RETRIES == 3
DEFAULT_DELAY_MS == 500
LIST_DELAY_MS == 1000

\* what an invocation of fn can throw
FetchErrors == {"timeout", "http"}

RetryInit ==
  /\ rtArgs \in [retries : 0 .. MaxRetriesArg, delayMs : {DEFAULT_DELAY_MS, LIST_DELAY_MS}]
  /\ rtPc = "try"
  /\ rtRetries = rtArgs.retries
  /\ rtDelayMs = rtArgs.delayMs
  /\ rtHist = <<>>
  /\ rtWaits = <<>>
  /\ rtThrown = 0

\* try { return await fn(); } catch (err) { if (retries === 0) throw err; ...
\* out is "ok" or the error thrown
RetryAttempt(out) ==
  /\ rtPc = "try"
  /\ rtHist' = Append(rtHist, out)
  /\ IF out = "ok" THEN rtPc' = "resolved" /\ UNCHANGED rtThrown
     ELSE IF rtRetries = 0 THEN rtPc' = "rejected" /\ rtThrown' = Len(rtHist) + 1
     ELSE rtPc' = "delay" /\ UNCHANGED rtThrown
  /\ UNCHANGED <<rtRetries, rtDelayMs, rtArgs, rtWaits>>

\* the same without the countdown: retries is passed on as it is
RetryDelayKeepsCount ==
  /\ rtPc = "delay"
  /\ rtWaits' = Append(rtWaits, rtDelayMs)
  /\ rtRetries' = rtRetries
  /\ rtDelayMs' = rtDelayMs * 2
  /\ rtPc' = "try"
  /\ UNCHANGED <<rtArgs, rtHist, rtThrown>>

\* the same with the delay passed on as it is
RetryDelayFixed ==
  /\ rtPc = "delay"
  /\ rtWaits' = Append(rtWaits, rtDelayMs)
  /\ rtRetries' = rtRetries - 1
  /\ rtDelayMs' = rtDelayMs
  /\ rtPc' = "try"
  /\ UNCHANGED <<rtArgs, rtHist, rtThrown>>

\* await delay(delayMs); return retryRequest(fn, retries - 1, delayMs * 2);
RetryDelay ==
  /\ rtPc = "delay"
  /\ rtWaits' = Append(rtWaits, rtDelayMs)
  /\ rtRetries' = rtRetries - 1
  /\ rtDelayMs' = rtDelayMs * 2
  /\ rtPc' = "try"
  /\ UNCHANGED <<rtArgs, rtHist, rtThrown>>

RetryNext ==
  \/ OnlyRetry /\ \E out \in FetchErrors \cup {"ok"} : RetryAttempt(out)
  \/ OnlyRetry /\ RetryDelay

(***************************************************************************)
(* parsePublishedAt, ensureDate and buildNewsRow (src/index.js 208-236,    *)
(* 514-537).  A Date is its time value in minutes since the epoch (the     *)
(* code never sets seconds), or invalid; a display date is the text of the *)
(* card: empty, text that the pattern of parsePublishedAt does not match,  *)
(* or "<day> <month word> <year>[ <hh>:<mm>]".                             *)
(***************************************************************************)
Null == [type |-> "null", valid |-> FALSE, time |-> 0]
DateAt(t) == [type |-> "Date", valid |-> TRUE, time |-> t]

MONTHS_EN ==
  [w \in {"jan", "january", "feb", "february", "mar", "march", "apr", "april", "may", "jun",
          "june", "jul", "july", "aug", "august", "sep", "sept", "september", "oct",
          "october", "nov", "november", "dec", "december"} |->
     CASE w \in {"jan", "january"} -> 0 [] w \in {"feb", "february"} -> 1
       [] w \in {"mar", "march"} -> 2 [] w \in {"apr", "april"} -> 3
       [] w = "may" -> 4 [] w \in {"jun", "june"} -> 5 [] w \in {"jul", "july"} -> 6
       [] w \in {"aug", "august"} -> 7 [] w \in {"sep", "sept", "september"} -> 8
       [] w \in {"oct", "october"} -> 9 [] w \in {"nov", "november"} -> 10
       [] w \in {"dec", "december"} -> 11]
MONTHS_ID ==
  [w \in {"jan", "januari", "feb", "februari", "mar", "maret", "apr", "april", "mei", "jun",
          "juni", "jul", "juli", "agu", "agustus", "agst", "sep", "september", "okt",
          "oktober", "nov", "november", "des", "desember"} |->
     CASE w \in {"jan", "januari"} -> 0 [] w \in {"feb", "februari"} -> 1
       [] w \in {"mar", "maret"} -> 2 [] w \in {"apr", "april"} -> 3
       [] w = "mei" -> 4 [] w \in {"jun", "juni"} -> 5 [] w \in {"jul", "juli"} -> 6
       [] w \in {"agu", "agustus", "agst"} -> 7 [] w \in {"sep", "september"} -> 8
       [] w \in {"okt", "oktober"} -> 9 [] w \in {"nov", "november"} -> 10
       [] w \in {"des", "desember"} -> 11]

\* the month words of the cards the model is fed, as written, and
\* m[2].toLowerCase().replace(/\./g, '') of each
MonthWords == {"September", "Sept.", "Mei", "May", "Agustus", "Desember", "January", "Foo"}
MonRaw(w) ==
  CASE w = "September" -> "september" [] w = "Sept." -> "sept" [] w = "Mei" -> "mei"
    [] w = "May" -> "may" [] w = "Agustus" -> "agustus" [] w = "Desember" -> "desember"
    [] w = "January" -> "january" [] w = "Foo" -> "foo"

EmptyText == [shape |-> "empty", day |-> 0, mon |-> "", year |-> 0, hm |-> <<>>]
OtherText == [shape |-> "other", day |-> 0, mon |-> "", year |-> 0, hm |-> <<>>]
DisplayDates ==
  {EmptyText, OtherText} \cup
  [shape : {"dmy"}, day : {1, 12, 31}, mon : MonthWords, year : {2024, 2025},
   hm : {<<>>, <<8, 38>>, <<6, 59>>, <<7, 0>>, <<0, 0>>, <<23, 59>>}]

\* Date.UTC(year, month, day, hours, minutes, 0) in minutes: the days from the epoch to
\* the first of the month (month from 0), then day, hours and minutes carried over
IsLeap(y) == (y % 4 = 0 /\ y % 100 # 0) \/ y % 400 = 0
DaysInMonth(y, m) ==
  IF m = 1 THEN (IF IsLeap(y) THEN 29 ELSE 28)
  ELSE IF m \in {3, 5, 8, 10} THEN 30 ELSE 31
DaysInYear(y) == IF IsLeap(y) THEN 366 ELSE 365
RECURSIVE DaysToYear(_)
DaysToYear(y) == IF y = 1970 THEN 0 ELSE DaysToYear(y - 1) + DaysInYear(y - 1)
RECURSIVE DaysToMonth(_, _)
DaysToMonth(y, m) == IF m = 0 THEN 0 ELSE DaysToMonth(y, m - 1) + DaysInMonth(y, m - 1)
DateUTC(year, month, day, hours, minutes) ==
  ((DaysToYear(year) + DaysToMonth(year, month) + (day - 1)) * 24 + hours) * 60 + minutes

WIB_OFFSET == 7

\* parsePublishedAt with the offset added instead of subtracted
parsePublishedAtAhead(dateStr, lang) ==
  IF dateStr.shape # "dmy" THEN Null
  ELSE LET monRaw == MonRaw(dateStr.mon)
           hourLocal == IF dateStr.hm # <<>> THEN dateStr.hm[1] ELSE 12
           minuteLocal == IF dateStr.hm # <<>> THEN dateStr.hm[2] ELSE 0
           map == IF lang = "id" THEN MONTHS_ID ELSE MONTHS_EN
           altMap == IF lang = "id" THEN MONTHS_EN ELSE MONTHS_ID
       IN IF monRaw \in DOMAIN map
            THEN DateAt(DateUTC(dateStr.year, map[monRaw], dateStr.day,
                                hourLocal + WIB_OFFSET, minuteLocal))
          ELSE IF monRaw \in DOMAIN altMap
            THEN DateAt(DateUTC(dateStr.year, altMap[monRaw], dateStr.day,
                                hourLocal + WIB_OFFSET, minuteLocal))
          ELSE Null

\* parsePublishedAt(dateStr, lang): null for the empty string, for a string the
\* pattern does not match and for an unknown month word
parsePublishedAt(dateStr, lang) ==
  IF dateStr.shape # "dmy" THEN Null
  ELSE LET monRaw == MonRaw(dateStr.mon)
           hourLocal == IF dateStr.hm # <<>> THEN dateStr.hm[1] ELSE 12
           minuteLocal == IF dateStr.hm # <<>> THEN dateStr.hm[2] ELSE 0
           map == IF lang = "id" THEN MONTHS_ID ELSE MONTHS_EN
           altMap == IF lang = "id" THEN MONTHS_EN ELSE MONTHS_ID
       IN IF monRaw \in DOMAIN map
            THEN DateAt(DateUTC(dateStr.year, map[monRaw], dateStr.day,
                                hourLocal - WIB_OFFSET, minuteLocal))
          ELSE IF monRaw \in DOMAIN altMap
            THEN DateAt(DateUTC(dateStr.year, altMap[monRaw], dateStr.day,
                                hourLocal - WIB_OFFSET, minuteLocal))
          ELSE Null

\* new Date(d) for the values that reach ensureDate: new Date(null) is the epoch
NewDate(d) == IF d.type = "null" THEN DateAt(0) ELSE d

\* ensureDate(d) at clock now
ensureDate(d, now) ==
  LET x == IF d.type = "Date" THEN d ELSE NewDate(d)
  IN IF ~x.valid THEN DateAt(now) ELSE x

\* the clock values of the runs the model follows: 2025-09-12T03:00Z and a day later
Clock == {DateUTC(2025, 8, 12, 3, 0), DateUTC(2025, 8, 13, 3, 0)}

DateInit ==
  /\ dpc = "card"
  /\ dDate \in DisplayDates
  /\ dLang \in Langs
  /\ dNow \in Clock
  /\ dPublishedAt = Null
  /\ dRowPub = Null

\* extractNewsItem: const publishedAt = parsePublishedAt(date, lang) || null;
ExtractNewsItem ==
  /\ dpc = "card"
  /\ dpc' = "item"
  /\ dPublishedAt' = parsePublishedAt(dDate, dLang)
  /\ UNCHANGED <<dDate, dLang, dNow, dRowPub>>

\* buildNewsRow(n): published_at of the row
BuildNewsRow ==
  /\ dpc = "item"
  /\ dpc' = "row"
  /\ dRowPub' = ensureDate(IF dPublishedAt.type = "Date" /\ dPublishedAt.valid
                             THEN dPublishedAt ELSE parsePublishedAt(dDate, dLang), dNow)
  /\ UNCHANGED <<dDate, dLang, dNow, dPublishedAt>>

DateNext ==
  \/ OnlyDate /\ ExtractNewsItem
  \/ OnlyDate /\ BuildNewsRow

(***************************************************************************)
(* normalizeAuthorInitial and toAuthorName (src/index.js 341-366).  A      *)
(* string is the sequence of its characters.                               *)
(***************************************************************************)
AUTHOR_ALLOW ==
  {<<"c", "p">>, <<"a", "y", "u">>, <<"a", "z">>, <<"a", "z", "f">>, <<"y", "d", "s">>,
   <<"a", "r", "l">>, <<"a", "l", "g">>, <<"m", "r", "v">>}
AUTHOR_BLACKLIST ==
  {<<"w", "t", "i">>, <<"b", "r", "e", "n", "t">>, <<"f", "e", "d">>, <<"e", "c", "b">>,
   <<"b", "o", "j">>, <<"p", "b", "o", "c">>, <<"f", "o", "m", "c">>, <<"c", "p", "i">>,
   <<"p", "m", "i">>, <<"g", "d", "p">>, <<"u", "s", "d">>, <<"e", "u", "r">>,
   <<"j", "p", "y">>, <<"p", "p", "i">>, <<"n", "f", "p">>, <<"i", "e", "a">>,
   <<"o", "p", "e", "c">>, <<"a", "t", "h">>, <<"d", "x", "y">>, <<"h", "k", "e", "x">>,
   <<"h", "s", "i">>, <<"d", "a", "x">>, <<"s", "t", "o", "x", "x">>, <<"s", "p", "x">>,
   <<"n", "d", "x">>, <<"v", "i", "x">>, <<"t", "s", "x">>, <<"n", "i", "f", "t", "y">>,
   <<"s", "e", "n", "s", "e", "x">>, <<"e", "i", "a">>, <<"a", "p", "i">>,
   <<"b", "n", "b">>, <<"a", "d", "a">>, <<"s", "o", "l">>, <<"x", "r", "p">>,
   <<"d", "o", "t">>, <<"d", "o", "g", "e">>, <<"t", "l", "t">>, <<"u", "s", "t">>,
   <<"i", "m", "f">>, <<"w", "t", "o">>, <<"w", "h", "o">>, <<"u", "n">>, <<"e", "u">>,
   <<"u", "k">>, <<"u", "s">>, <<"i", "d">>, <<"s", "g">>, <<"m", "y">>, <<"t", "h">>,
   <<"v", "n">>, <<"p", "h">>, <<"a", "i">>, <<"m", "l">>, <<"n", "l", "p">>, <<"f", "x">>,
   <<"i", "p", "o">>, <<"y", "o", "y">>, <<"m", "o", "m">>, <<"q", "o", "q">>,
   <<"b", "p", "s">>, <<"s", "e", "p">>, <<"b", "o", "e">>, <<"b", "o", "c">>,
   <<"r", "b", "a">>, <<"r", "b", "n", "z">>, <<"b", "c", "b">>, <<"i", "h", "k">>,
   <<"i", "h", "p">>, <<"i", "h", "s", "g">>, <<"w", "i", "b">>, <<"w", "i", "t", "a">>,
   <<"w", "i", "t">>, <<"t", "t", "m">>, <<"y", "t", "d">>, <<"q", "1">>, <<"q", "2">>,
   <<"q", "3">>, <<"q", "4">>, <<"b", "r", "i">>, <<"b", "n", "i">>, <<"b", "t", "n">>,
   <<"b", "s", "i">>, <<"b", "c", "a">>, <<"c", "i", "m", "b">>, <<"o", "c", "b", "c">>,
   <<"u", "o", "b">>, <<"d", "b", "s">>, <<"r", "a", "b", "u">>,
   <<"k", "a", "m", "i", "s">>, <<"j", "u", "m", "a", "t">>, <<"s", "a", "b", "t", "u">>,
   <<"m", "i", "n", "g", "g", "u">>, <<"s", "e", "n", "i", "n">>,
   <<"s", "e", "l", "a", "s", "a">>, <<"n", "e", "w", "s">>,
   <<"n", "e", "w", "s", "m", "a", "k", "e", "r">>, <<"s", "o", "u", "r", "c", "e">>,
   <<"s", "u", "m", "b", "e", "r">>, <<"e", "d", "i", "t", "o", "r">>,
   <<"d", "e", "s", "k">>}
\* AUTHOR_ALIASES, as the pairs <<key, value>>
AUTHOR_ALIASES ==
  {<<<<"c", "p">>, <<"c", "p">>>>,
   <<<<"c", "P">>, <<"c", "p">>>>,
   <<<<"C", "P">>, <<"c", "p">>>>,
   <<<<"a", "y", "u">>, <<"a", "y", "u">>>>,
   <<<<"a", "y", "i", "u">>, <<"a", "y", "u">>>>,
   <<<<"a", "y", "i">>, <<"a", "y", "u">>>>,
   <<<<"a", "y">>, <<"a", "y", "u">>>>,
   <<<<"a", "d", "s">>, <<"a", "y", "u">>>>,
   <<<<"a", "z">>, <<"a", "z">>>>,
   <<<<"a", "z", "f">>, <<"a", "z", "f">>>>,
   <<<<"y", "d", "s">>, <<"y", "d", "s">>>>,
   <<<<"a", "r", "l">>, <<"a", "r", "l">>>>,
   <<<<"a", "l", "g">>, <<"a", "l", "g">>>>,
   <<<<"m", "r", "v">>, <<"m", "r", "v">>>>}
\* AUTHOR_NAME_MAP, as the pairs <<key, display name>>
AUTHOR_NAME_MAP ==
  {<<<<"c", "p">>, "Broto">>, <<<<"a", "y", "u">>, "Ayu">>, <<<<"a", "z">>, "Nova">>,
   <<<<"a", "z", "f">>, "Nova">>, <<<<"y", "d", "s">>, "Yudis">>, <<<<"a", "r", "l">>, "Arul">>,
   <<<<"a", "l", "g">>, "Burhan">>, <<<<"m", "r", "v">>, "Marvy">>}

LowerLetters ==
  {"a", "b", "c", "d", "e", "f", "g", "h", "i", "j", "k", "l", "m", "n", "o", "p", "q", "r",
   "s", "t", "u", "v", "w", "x", "y", "z"}
\* the upper-case letters that occur in the inputs of the model, with toLowerCase() of each
UpperLetters ==
  {<<"A", "a">>, <<"B", "b">>, <<"C", "c">>, <<"D", "d">>, <<"F", "f">>, <<"I", "i">>,
   <<"M", "m">>, <<"N", "n">>, <<"P", "p">>, <<"R", "r">>, <<"S", "s">>, <<"T", "t">>,
   <<"V", "v">>, <<"W", "w">>, <<"Z", "z">>}
IsLetter(ch) == ch \in LowerLetters \/ \E u \in UpperLetters : u[1] = ch
LowerChar(ch) == IF \E u \in UpperLetters : u[1] = ch
                   THEN (CHOOSE u \in UpperLetters : u[1] = ch)[2] ELSE ch
toLowerCase(s) == [i \in 1 .. Len(s) |-> LowerChar(s[i])]

\* String(raw).trim()
RECURSIVE trim(_)
trim(s) ==
  IF s = <<>> THEN s
  ELSE IF Head(s) = " " THEN trim(Tail(s))
  ELSE IF s[Len(s)] = " " THEN trim(SubSeq(s, 1, Len(s) - 1))
  ELSE s

\* /^[a-z]{2,6}$/.test(s)
IsCode(s) == Len(s) \in 2 .. 6 /\ \A i \in 1 .. Len(s) : s[i] \in LowerLetters

\* s.match(/\(([a-z]{2,6})\)/i): the positions <<i, n>> where "(" stands at i, followed
\* by n letters, 2 to 6, and ")"; the match is the leftmost one
ParenMatches(s) ==
  {p \in (1 .. Len(s)) \X (2 .. 6) :
     /\ p[1] + p[2] + 1 <= Len(s)
     /\ s[p[1]] = "("
     /\ \A j \in 1 .. p[2] : IsLetter(s[p[1] + j])
     /\ s[p[1] + p[2] + 1] = ")"}
ParenGroup(s) ==
  LET p == CHOOSE x \in ParenMatches(s) : \A y \in ParenMatches(s) : x[1] <= y[1]
  IN SubSeq(s, p[1] + 1, p[1] + p[2])

\* AUTHOR_ALIASES[s] || s
Aliased(s) == IF \E a \in AUTHOR_ALIASES : a[1] = s
                THEN (CHOOSE a \in AUTHOR_ALIASES : a[1] = s)[2] ELSE s

NoAuthor == <<>>

\* the same with the alias correction after the allow-list check
normalizeAuthorInitialAliasLast(raw) ==
  IF raw = <<>> THEN NoAuthor
  ELSE LET t == trim(raw)
           s == toLowerCase(IF ParenMatches(t) # {} THEN ParenGroup(t) ELSE t)
       IN IF ~IsCode(s) THEN NoAuthor
          ELSE IF s \in AUTHOR_BLACKLIST THEN NoAuthor
          ELSE IF s \notin AUTHOR_ALLOW THEN NoAuthor
          ELSE Aliased(s)

\* normalizeAuthorInitial(raw); null is NoAuthor
normalizeAuthorInitial(raw) ==
  IF raw = <<>> THEN NoAuthor
  ELSE LET t == trim(raw)
           s == Aliased(toLowerCase(IF ParenMatches(t) # {} THEN ParenGroup(t) ELSE t))
       IN IF ~IsCode(s) THEN NoAuthor
          ELSE IF s \in AUTHOR_BLACKLIST THEN NoAuthor
          ELSE IF s \notin AUTHOR_ALLOW THEN NoAuthor
          ELSE s

\* toAuthorName(initial); null is the empty string
toAuthorName(initial) ==
  IF \E e \in AUTHOR_NAME_MAP : e[1] = toLowerCase(initial)
    THEN (CHOOSE e \in AUTHOR_NAME_MAP : e[1] = toLowerCase(initial))[2] ELSE ""

\* the author candidates the model feeds to normalizeAuthorInitial
AuthorRaws ==
  {<<"(", "W", "T", "I", ")">>, <<"(", "A", "Z", "F", ")">>, <<"(", "x", "x", ")">>,
   <<"a", "d", "s">>, <<"(", "A", "D", "S", ")">>, <<"(", "a", "y", "i", "u", ")">>,
   <<"a", "y", "i">>, <<"a", "y">>, <<"A", "Z">>, <<" ", "(", "c", "p", ")", " ">>,
   <<"C", "P">>, <<"a">>, <<"a", "b", "c", "d", "e", "f", "g">>,
   <<"(", "a", "b", "c", "d", "e", "f", "g", ")">>,
   <<"b", "y", " ", "(", "a", "z", "f", ")", " ", "d", "e", "s", "k">>,
   <<"(", "w", "t", "i", ")", " ", "(", "a", "z", "f", ")">>, <<"x", "(", "a", "z", ")">>,
   <<"f", "e", "d">>, <<"(", "F", "e", "d", ")">>, <<"n", "e", "w", "s">>, <<>>,
   <<"a", "z", "1">>, <<"(", "a", "1", ")">>, <<"m", "r", "v">>,
   <<"(", "M", "R", "V", ")">>, <<"y", "d", "s">>, <<"(", "a", "r", "l", ")">>,
   <<"a", "l", "g">>, <<"(", "B", "r", "e", "n", "t", ")">>, <<"a", "y", "u">>,
   <<"(", "a", ")", "(", "y", "d", "s", ")">>, <<"(", " ", "a", "z", " ", ")">>,
   <<"a", "z", "f", ")">>, <<"(", "a", "z", "f">>, <<"N", "o", "v", "a">>, <<"(", "p", "m", "i", ")">>,
   <<"d", "e", "s", "k">>, <<"(", "a", "d", "s", ")">>, <<"(", "a", "z", ")", "(", "w", "t", "i", ")">>, <<"e", "u">>,
   <<"(", "s", "e", "p", ")">>}

AuthorInit ==
  /\ apc = "raw"
  /\ aRaw \in AuthorRaws
  /\ aAuthor = NoAuthor
  /\ aName = ""

\* author = normalizeAuthorInitial(author)
NormalizeAuthor ==
  /\ apc = "raw"
  /\ apc' = "author"
  /\ aAuthor' = normalizeAuthorInitial(aRaw)
  /\ UNCHANGED <<aRaw, aName>>

\* author_name: toAuthorName(author)
NameAuthor ==
  /\ apc = "author"
  /\ apc' = "named"
  /\ aName' = toAuthorName(aAuthor)
  /\ UNCHANGED <<aRaw, aAuthor>>

AuthorNext ==
  \/ OnlyAuthor /\ NormalizeAuthor
  \/ OnlyAuthor /\ NameAuthor

(***************************************************************************)
(* scrapeAllHistoricalData: the save loop (src/index.js 1185-1198) over    *)
(* the table of src/models/historical.js.  findOrCreate looks the row up   *)
(* and inserts it when the look-up found none; the unique index on         *)
(* (symbol, date) rejects an insert that another run got in first.  The    *)
(* runs scrape the same rows, each with its own values.                    *)
(***************************************************************************)
BarKeys == 1 .. NumBarKeys
BarRuns == 1 .. NumBarRuns

\* the values run r scraped for its i-th row
BarValues(r, i) == <<r, i>>

BarsInit ==
  /\ bars = [k \in BarKeys |-> <<>>]
  /\ barData \in UNION {[1 .. n -> BarKeys] : n \in 0 .. MaxBarRows}
  /\ bpc = [r \in BarRuns |-> IF barData = <<>> THEN "done" ELSE "find"]
  /\ bi = [r \in BarRuns |-> 1]

\* the end of an iteration of for (const row of data)
BarNextRow(r) ==
  /\ bi' = [bi EXCEPT ![r] = @ + 1]
  /\ bpc' = [bpc EXCEPT ![r] = IF bi[r] = Len(barData) THEN "done" ELSE "find"]

\* findOrCreate: the look-up by where: { symbol, date }
BarFind(r) ==
  /\ bpc[r] = "find"
  /\ IF bars[barData[bi[r]]] # <<>> THEN BarNextRow(r)
     ELSE bpc' = [bpc EXCEPT ![r] = "create"] /\ UNCHANGED bi
  /\ UNCHANGED <<bars, barData>>

\* the same writing the scraped values over a row that is there
BarCreateOrUpdate(r) ==
  /\ bpc[r] = "create"
  /\ bars' = [bars EXCEPT ![barData[bi[r]]] = <<BarValues(r, bi[r])>>]
  /\ BarNextRow(r)
  /\ UNCHANGED barData

\* findOrCreate: the insert with defaults; on a unique-index violation nothing is
\* written
BarCreate(r) ==
  /\ bpc[r] = "create"
  /\ bars' = [bars EXCEPT ![barData[bi[r]]] =
                IF @ = <<>> THEN <<BarValues(r, bi[r])>> ELSE @]
  /\ BarNextRow(r)
  /\ UNCHANGED barData

BarsNext ==
  \/ OnlyBars /\ \E r \in BarRuns : BarFind(r)
  \/ OnlyBars /\ \E r \in BarRuns : BarCreate(r)

(***************************************************************************)
(* scrapeCalendarPaged: the loop over the rows of the main table inside    *)
(* page.evaluate (src/index.js 829-946).  A row is the number of its       *)
(* cells, whether one of them spans columns, and the text of its figures   *)
(* cell: "text" (an event name with its figures), "-" or "".               *)
(***************************************************************************)
RowShapes ==
  {[cells |-> 1, colspan |-> FALSE, figures |-> ""],
   [cells |-> 5, colspan |-> TRUE, figures |-> ""],
   [cells |-> 5, colspan |-> FALSE, figures |-> "text"],
   [cells |-> 5, colspan |-> FALSE, figures |-> "-"],
   [cells |-> 3, colspan |-> FALSE, figures |-> "text"]}

\* tds.length === 1 || Array.from(tds).some((td) => (td.colSpan || 1) > 1)
isDetailRow(tr) == tr.cells = 1 \/ tr.colspan

CalRowsInit ==
  /\ trs \in UNION {[1 .. n -> RowShapes] : n \in 0 .. MaxCalRows}
  /\ ti = 1
  /\ calOut = <<>>
  /\ lastEvent = 0

\* one iteration of for (const tr of rows)
ParseRow ==
  /\ ti <= Len(trs)
  /\ ti' = ti + 1
  /\ IF isDetailRow(trs[ti])
       THEN IF lastEvent = 0 THEN UNCHANGED <<calOut, lastEvent>>
            ELSE /\ calOut' = [calOut EXCEPT ![lastEvent].details = ti]
                 /\ UNCHANGED lastEvent
     ELSE IF trs[ti].cells >= 4 /\ trs[ti].figures \notin {"", "-"}
       THEN /\ calOut' = Append(calOut, [row |-> ti, details |-> 0])
            /\ lastEvent' = Len(calOut) + 1
     ELSE UNCHANGED <<calOut, lastEvent>>
  /\ UNCHANGED trs

CalRowsNext == OnlyCalRows /\ ParseRow

(***************************************************************************)
(* enqueueCal and runCalQueue (src/index.js 735-754) on every instance,    *)
(* with the three places that submit calendar tasks: the schedulers        *)
(* (scheduleCal, 1042-1047), the start-up pre-warm (1026-1036) and the     *)
(* read API on a cache miss (1417, 1437, 1457, 1477, 1516-1519).  The      *)
(* entry lock:cal:GLOBAL is taken to outlive the scrape it guards.         *)
(***************************************************************************)
Insts == 1 .. NumInsts
Origins == {"scheduler", "prewarm", "api"}

CalInit ==
  /\ calQueue = [i \in Insts |-> <<>>]
  /\ calRunning = [i \in Insts |-> FALSE]
  /\ calActive = [i \in Insts |-> {}]
  /\ calLock = 0
  /\ calSubmitted = [i \in Insts |-> <<>>]
  /\ calStarted = [i \in Insts |-> <<>>]
  /\ calSettled = [i \in Insts |-> <<>>]

RECURSIVE GivenUpTo(_)
GivenUpTo(i) == IF i = 0 THEN 0 ELSE Len(calSubmitted[i]) + GivenUpTo(i - 1)
TasksGiven == GivenUpTo(NumInsts)

\* taskFn() is called for task t on instance i with the lock entry at holder:
\* scheduleCal wraps the scrape in withLock(CAL_LOCK_KEY, 120, fn), which skips fn when
\* the entry is set; the pre-warm and the read API call the scrape as it is
Begin(i, t, holder) ==
  [id |-> t.id, origin |-> t.origin,
   scraping |-> IF t.origin = "scheduler" THEN holder = 0 ELSE TRUE,
   locked |-> t.origin = "scheduler" /\ holder = 0]

\* the while loop of runCalQueue on instance i from its test on, with queue q and the
\* tasks a in flight: it starts the first task of q and awaits it, or leaves the loop
RunLoop(i, q, a, holder) ==
  IF q = <<>>
    THEN /\ calRunning' = [calRunning EXCEPT ![i] = FALSE]
         /\ calQueue' = [calQueue EXCEPT ![i] = <<>>]
         /\ calActive' = [calActive EXCEPT ![i] = a]
         /\ calLock' = holder
         /\ UNCHANGED calStarted
    ELSE /\ calRunning' = [calRunning EXCEPT ![i] = TRUE]
         /\ calQueue' = [calQueue EXCEPT ![i] = Tail(q)]
         /\ calActive' = [calActive EXCEPT ![i] = a \cup {Begin(i, Head(q), holder)}]
         /\ calLock' = IF Begin(i, Head(q), holder).locked THEN i ELSE holder
         /\ calStarted' = [calStarted EXCEPT ![i] = Append(@, Head(q).id)]

\* the pre-warm awaits each of its tasks before it submits the next
PrewarmPending(i) ==
  \/ \E k \in 1 .. Len(calQueue[i]) : calQueue[i][k].origin = "prewarm"
  \/ \E t \in calActive[i] : t.origin = "prewarm"

\* the same with a runCalQueue that does not test calRunning
EnqueueCalEachRuns(i, origin) ==
  /\ TasksGiven < MaxCalTasks
  /\ origin = "prewarm" => ~PrewarmPending(i)
  /\ LET t == [id |-> Len(calSubmitted[i]) + 1, origin |-> origin]
     IN /\ calSubmitted' = [calSubmitted EXCEPT ![i] = Append(@, t.id)]
        /\ RunLoop(i, Append(calQueue[i], t), calActive[i], calLock)
        /\ UNCHANGED calSettled

\* enqueueCal(taskFn): calQueue.push(...); runCalQueue();
EnqueueCal(i, origin) ==
  /\ TasksGiven < MaxCalTasks
  /\ origin = "prewarm" => ~PrewarmPending(i)
  /\ LET t == [id |-> Len(calSubmitted[i]) + 1, origin |-> origin]
     IN /\ calSubmitted' = [calSubmitted EXCEPT ![i] = Append(@, t.id)]
        /\ IF calRunning[i]
             THEN /\ calQueue' = [calQueue EXCEPT ![i] = Append(@, t)]
                  /\ UNCHANGED <<calRunning, calActive, calLock, calStarted>>
             ELSE RunLoop(i, Append(calQueue[i], t), calActive[i], calLock)
        /\ UNCHANGED calSettled

\* the same with a loop body that is `resolve(await taskFn())` without the try/catch: a
\* rejection leaves runCalQueue, with calRunning still true and the promise pending
CalTaskSettlesNoCatch(i, t, how) ==
  /\ t \in calActive[i]
  /\ IF how = "threw"
       THEN /\ calActive' = [calActive EXCEPT ![i] = @ \ {t}]
            /\ calLock' = IF t.locked THEN 0 ELSE calLock
            /\ UNCHANGED <<calQueue, calRunning, calStarted, calSettled>>
       ELSE /\ calSettled' = [calSettled EXCEPT ![i] =
                                Append(@, [id |-> t.id, task |-> how, promise |-> "resolved"])]
            /\ RunLoop(i, calQueue[i], calActive[i] \ {t}, IF t.locked THEN 0 ELSE calLock)
  /\ UNCHANGED calSubmitted

\* taskFn() of the task t in flight on instance i settles (how: "returned" | "threw"):
\* withLock has deleted the entry it set, the promise of enqueueCal is resolved or
\* rejected with it, and the loop of runCalQueue goes on
CalTaskSettles(i, t, how) ==
  /\ t \in calActive[i]
  /\ calSettled' = [calSettled EXCEPT ![i] =
                      Append(@, [id |-> t.id, task |-> how,
                                 promise |-> IF how = "returned" THEN "resolved"
                                                                 ELSE "rejected"])]
  /\ RunLoop(i, calQueue[i], calActive[i] \ {t}, IF t.locked THEN 0 ELSE calLock)
  /\ UNCHANGED calSubmitted

\* the task in flight on instance i settles
CalSettles(i) ==
  OnlyCal /\ \E t \in calActive[i], how \in {"returned", "threw"} : CalTaskSettles(i, t, how)

CalNext ==
  \/ OnlyCal /\ \E i \in Insts, origin \in Origins : EnqueueCal(i, origin)
  \/ \E i \in Insts : CalSettles(i)

(***************************************************************************)
(* getBrowser and withPage (src/index.js 35-63).  getBrowser has no await: *)
(* its test and its assignment are one step.                               *)
(***************************************************************************)
PageCalls == 1 .. NumPageCalls

BrowserInit ==
  /\ browserPromise = 0
  /\ launched = <<>>
  /\ wpc = [c \in PageCalls |-> "idle"]
  /\ wBrowser = [c \in PageCalls |-> 0]
  /\ wPages = {}

\* the same caching the browser instead of the promise: a launch is reused only once
\* it has resolved
GetBrowserAfterLaunch(c) ==
  /\ wpc[c] = "idle"
  /\ wpc' = [wpc EXCEPT ![c] = "getBrowser"]
  /\ IF browserPromise # 0 /\ launched[browserPromise] = "resolved"
       THEN /\ wBrowser' = [wBrowser EXCEPT ![c] = browserPromise]
            /\ UNCHANGED <<browserPromise, launched>>
       ELSE /\ launched' = Append(launched, "pending")
            /\ browserPromise' = Len(launched) + 1
            /\ wBrowser' = [wBrowser EXCEPT ![c] = Len(launched) + 1]
  /\ UNCHANGED wPages

\* withPage: const browser = await getBrowser();
\* getBrowser: if (_browserPromise) return _browserPromise;
\*             _browserPromise = puppeteer.launch({...}); return _browserPromise;
GetBrowser(c) ==
  /\ wpc[c] = "idle"
  /\ wpc' = [wpc EXCEPT ![c] = "getBrowser"]
  /\ IF browserPromise # 0
       THEN /\ wBrowser' = [wBrowser EXCEPT ![c] = browserPromise]
            /\ UNCHANGED <<browserPromise, launched>>
       ELSE /\ launched' = Append(launched, "pending")
            /\ browserPromise' = Len(launched) + 1
            /\ wBrowser' = [wBrowser EXCEPT ![c] = Len(launched) + 1]
  /\ UNCHANGED wPages

\* the n-th launch settles
LaunchSettles(n, how) ==
  /\ n \in 1 .. Len(launched)
  /\ launched[n] = "pending"
  /\ launched' = [launched EXCEPT ![n] = how]
  /\ UNCHANGED <<browserPromise, wpc, wBrowser, wPages>>

\* the await of withPage call c ends: browser.newPage(), or the rejection of the launch
PageOpens(c) ==
  /\ wpc[c] = "getBrowser"
  /\ launched[wBrowser[c]] # "pending"
  /\ wpc' = [wpc EXCEPT ![c] = IF launched[wBrowser[c]] = "resolved" THEN "page" ELSE "failed"]
  /\ wPages' = IF launched[wBrowser[c]] = "resolved" THEN wPages \cup {c} ELSE wPages
  /\ UNCHANGED <<browserPromise, launched, wBrowser>>

\* the same with page.close() after the await instead of in a finally block
PageClosesOnReturn(c, how) ==
  /\ wpc[c] = "page"
  /\ wpc' = [wpc EXCEPT ![c] = how]
  /\ wPages' = IF how = "done" THEN wPages \ {c} ELSE wPages
  /\ UNCHANGED <<browserPromise, launched, wBrowser>>

\* try { return await run(page); } finally { try { await page.close(); } catch { } }
\* how: "done" (run returned) or "threw"
PageCloses(c, how) ==
  /\ wpc[c] = "page"
  /\ wpc' = [wpc EXCEPT ![c] = how]
  /\ wPages' = wPages \ {c}
  /\ UNCHANGED <<browserPromise, launched, wBrowser>>

BrowserNext ==
  \/ OnlyBrowser /\ \E c \in PageCalls : GetBrowser(c)
  \/ OnlyBrowser /\ \E n \in 1 .. Len(launched), how \in {"resolved", "rejected"} :
                       LaunchSettles(n, how)
  \/ OnlyBrowser /\ \E c \in PageCalls : PageOpens(c)
  \/ OnlyBrowser /\ \E c \in PageCalls, how \in {"done", "threw"} : PageCloses(c, how)

(***************************************************************************)
(* The calendar snapshot of one period: scrapeCalendarPaged, its wrapper   *)
(* (scrapeCalendarToday and the three week wrappers), the key              *)
(* calendar:<period> and the read route of the period.                     *)
(***************************************************************************)
NumScrapes == 3
MaxCalPages == 2

\* { updatedAt: null, data: [] }
EmptySnapshot == [run |-> 0, pages |-> 0]
NoSnapKey == [run |-> -1, pages |-> 0]
NoResponse == [status |-> 0, snap |-> NoSnapKey]

SnapInit ==
  snap = [calendarCache |-> EmptySnapshot, key |-> NoSnapKey, pc |-> "idle", run |-> 0,
          p |-> 0, all |-> 0, origin |-> "scheduler", ok |-> "none", resp |-> NoResponse]

\* the queue starts a scrape of the period: a scheduled one, or the one that the read
\* route enqueues when redis.get returned nothing
ScrapeStart(origin) ==
  /\ snap.pc = "idle"
  /\ snap.run < NumScrapes
  /\ origin = "read" => snap.key = NoSnapKey
  /\ snap' = [snap EXCEPT !.pc = "pages", !.run = @ + 1, !.p = 1, !.all = 0,
                          !.origin = origin, !.ok = "none",
                          !.resp = IF origin = "read" THEN NoResponse ELSE @]

\* result.ok: the wrapper stores the snapshot in calendarCache and at the key, and the
\* read route that waited for it sets the key again and answers with it
ScrapeOk(n) ==
  LET snapshot == [run |-> snap.run, pages |-> n]
  IN  snap' = [snap EXCEPT !.calendarCache = snapshot, !.key = snapshot,
                           !.resp = IF snap.origin = "read"
                                      THEN [status |-> 200, snap |-> snapshot] ELSE @,
                           !.ok = "ok", !.all = n, !.pc = "idle"]

\* the catch of scrapeCalendarPaged returns { ok: false, data: [] }; the wrapper throws;
\* scheduleCal logs the error, the read route answers 500
ScrapeFailed ==
  snap' = [snap EXCEPT !.ok = "failed", !.pc = "idle",
                       !.resp = IF snap.origin = "read"
                                  THEN [status |-> 500, snap |-> NoSnapKey] ELSE @]

\* the same with a wrapper that stores result.data without looking at result.ok
ScrapePageStoresAnyResult(out) ==
  /\ snap.pc = "pages"
  /\ CASE out = "throws" ->
            snap' = [snap EXCEPT !.ok = "failed", !.pc = "idle",
                                 !.calendarCache = [run |-> snap.run, pages |-> 0],
                                 !.key = [run |-> snap.run, pages |-> 0]]
       [] out = "empty" -> ScrapeOk(snap.all)
       [] out = "short" -> ScrapeOk(snap.all + 1)
       [] out = "full" ->
            IF snap.p < MaxCalPages
              THEN snap' = [snap EXCEPT !.p = @ + 1, !.all = @ + 1]
              ELSE ScrapeOk(snap.all + 1)

\* one turn of the page loop: goto and evaluate throw, or the page has no rows (break),
\* fewer rows than pageSize (push, break) or pageSize rows (push, next page)
ScrapePage(out) ==
  /\ snap.pc = "pages"
  /\ CASE out = "throws" -> ScrapeFailed
       [] out = "empty" -> ScrapeOk(snap.all)
       [] out = "short" -> ScrapeOk(snap.all + 1)
       [] out = "full" ->
            IF snap.p < MaxCalPages
              THEN snap' = [snap EXCEPT !.p = @ + 1, !.all = @ + 1]
              ELSE ScrapeOk(snap.all + 1)

\* GET /api/calendar/<period> with the key stored: the payload of the key is the answer
ReadHit ==
  /\ snap.key # NoSnapKey
  /\ snap' = [snap EXCEPT !.resp = [status |-> 200, snap |-> snap.key]]

\* the key runs out of its TTL (CAL_TTL_SECONDS, or one hour when the read route set it)
KeyExpires ==
  /\ snap.key # NoSnapKey
  /\ snap' = [snap EXCEPT !.key = NoSnapKey]

SnapNext ==
  \/ OnlySnap /\ \E origin \in {"scheduler", "read"} : ScrapeStart(origin)
  \/ OnlySnap /\ \E out \in {"throws", "empty", "short", "full"} : ScrapePage(out)
  \/ OnlySnap /\ ReadHit
  \/ OnlySnap /\ KeyExpires

(***************************************************************************)
(* Repeated runs of scrapeNewsByLang over one category of a source whose   *)
(* listing stays as it is: page p of the category lists the link p, the    *)
(* pages behind the listing are empty.                                     *)
(***************************************************************************)
NumListed == 4
MaxFetchFailures == 2

Listed == 1 .. NumListed

\* the items of the list page p
ListedOn(p) == IF p \in Listed THEN {p} ELSE {}

ConvergeInit ==
  cv = [persisted |-> {}, pc |-> "idle", page |-> 1, emptyStreak |-> 0,
        existingLinks |-> {}, seenLinks |-> {}, allNewItems |-> {}, failures |-> 0]

\* a scheduled run starts: existingLinks is read from the table
RunStarts ==
  /\ cv.pc = "idle"
  /\ cv' = [cv EXCEPT !.pc = "pages", !.page = 1, !.emptyStreak = 0,
                      !.existingLinks = cv.persisted, !.seenLinks = {},
                      !.allNewItems = {}]

\* if (++emptyStreak >= 3) break; otherwise the next page
StreakStep(c) ==
  IF c.emptyStreak + 1 >= STREAK_LIMIT
    THEN [c EXCEPT !.emptyStreak = @ + 1, !.pc = "save"]
    ELSE [c EXCEPT !.emptyStreak = @ + 1, !.page = @ + 1]

\* one turn of the while loop: the list page is fetched (ok) or its fetch fails after
\* the retries; the fresh items of a fetched page get their details and are collected
ListPage(ok) ==
  /\ cv.pc = "pages"
  /\ IF ~ok
       THEN /\ cv.failures < MaxFetchFailures
            /\ cv' = StreakStep([cv EXCEPT !.failures = @ + 1])
       ELSE LET freshLinks == ListedOn(cv.page) \ (cv.existingLinks \cup cv.seenLinks)
            IN  IF freshLinks = {}
                  THEN cv' = StreakStep(cv)
                  ELSE cv' = [cv EXCEPT !.seenLinks = @ \cup freshLinks,
                                        !.emptyStreak = 0,
                                        !.allNewItems = @ \cup freshLinks,
                                        !.page = @ + 1]

\* the rows of allNewItems are written (bulkCreate) and the run ends
RunSaves ==
  /\ cv.pc = "save"
  /\ cv' = [cv EXCEPT !.persisted = @ \cup cv.allNewItems, !.pc = "idle"]

ConvergeNext ==
  \/ OnlyConverge /\ RunStarts
  \/ OnlyConverge /\ \E ok \in BOOLEAN : ListPage(ok)
  \/ OnlyConverge /\ RunSaves

(***************************************************************************)
(* looksIndonesian and the language filter of scrapeNewsByLang.  A text is *)
(* the sequence of its words, a word the sequence of its characters; the   *)
(* \b...\b of the two patterns makes a match a whole word.                 *)
(***************************************************************************)
MaxWords == 2

\* /\b(dan|yang|akan|dari|pada|dengan|sebagai)\b/g
ID_WORDS ==
  {<<"d", "a", "n">>,
   <<"y", "a", "n", "g">>,
   <<"a", "k", "a", "n">>,
   <<"d", "a", "r", "i">>,
   <<"p", "a", "d", "a">>,
   <<"d", "e", "n", "g", "a", "n">>,
   <<"s", "e", "b", "a", "g", "a", "i">>}

\* /\b(the|and|of|for|with|as|to)\b/g
EN_WORDS ==
  {<<"t", "h", "e">>,
   <<"a", "n", "d">>,
   <<"o", "f">>,
   <<"f", "o", "r">>,
   <<"w", "i", "t", "h">>,
   <<"a", "s">>,
   <<"t", "o">>}

\* the words of the texts that the model feeds the filter
FilterWords ==
  {<<"D", "a", "n">>,
   <<"y", "a", "n", "g">>,
   <<"T", "h", "e">>,
   <<"o", "f">>,
   <<"t", "h", "e", "o", "r", "y">>}

\* (t.match(pattern) || []).length on the lower-cased text
Matches(s, words) == Cardinality({i \in 1 .. Len(s) : toLowerCase(s[i]) \in words})

\* the same keeping a text only when the Indonesian words are the majority
looksIndonesianStrict(s) == Matches(s, ID_WORDS) > Matches(s, EN_WORDS)

\* hits >= anti
looksIndonesian(s) == Matches(s, ID_WORDS) >= Matches(s, EN_WORDS)

\* n.detail || n.summary || n.title: the first of the three that is not empty
FilterText(n) ==
  IF n.detail # <<>> THEN n.detail ELSE IF n.summary # <<>> THEN n.summary ELSE n.title

TextsUpTo(k) == UNION {[1 .. len -> FilterWords] : len \in 0 .. k}

LangFilterInit ==
  lf \in [lang : Langs,
          item : [detail : TextsUpTo(MaxWords), summary : TextsUpTo(1), title : TextsUpTo(1)],
          pc : {"detailed"}, kept : {TRUE}]

\* if (lang === 'id') detailed = detailed.filter(...); allNewItems.push(...detailed)
FilterDetailed ==
  /\ lf.pc = "detailed"
  /\ lf' = [lf EXCEPT !.kept = IF lf.lang = "id" THEN looksIndonesian(FilterText(lf.item))
                                                 ELSE TRUE,
                      !.pc = "pushed"]

LangFilterNext ==
  \/ OnlyLangFilter /\ FilterDetailed

(***************************************************************************)
(* getAllSymbols and the symbol catalog it keeps in cachedSymbols          *)
(***************************************************************************)
NumSymCalls == 2
MaxSymClock == 2

SymCalls == 1 .. NumSymCalls

\* the catalogs that the source serves: no option, one, two
SymbolLists == {<<>>, <<"A">>, <<"A", "B">>}

\* let cachedSymbols = null
NoCatalog == [stored |-> FALSE, list |-> <<>>]

SymInit ==
  sym = [cachedSymbols |-> NoCatalog, cachedSymbolsTimestamp |-> 0, clock |-> 0,
         pc |-> [c \in SymCalls |-> "idle"], now |-> [c \in SymCalls |-> 0],
         ret |-> [c \in SymCalls |-> NoCatalog], fetches |-> 0]

\* Date.now() moves on
SymTick ==
  /\ sym.clock < MaxSymClock
  /\ sym' = [sym EXCEPT !.clock = @ + 1]

\* the same with a test that takes an empty catalog for no catalog
GetAllSymbolsNonEmpty(c) ==
  /\ sym.pc[c] = "idle"
  /\ IF /\ sym.cachedSymbols.stored /\ sym.cachedSymbols.list # <<>>
        /\ sym.clock - sym.cachedSymbolsTimestamp # 0
       THEN sym' = [sym EXCEPT !.now[c] = sym.clock, !.pc[c] = "done",
                               !.ret[c] = sym.cachedSymbols]
       ELSE sym' = [sym EXCEPT !.now[c] = sym.clock, !.pc[c] = "fetch", !.fetches = @ + 1]

\* const now = Date.now(); if (cachedSymbols && now - cachedSymbolsTimestamp) return
\* cachedSymbols; otherwise axios.get(BASE_URL) is sent.  An array is truthy, an empty one
\* too; a difference is truthy when it is not 0.
GetAllSymbols(c) ==
  /\ sym.pc[c] = "idle"
  /\ IF sym.cachedSymbols.stored /\ sym.clock - sym.cachedSymbolsTimestamp # 0
       THEN sym' = [sym EXCEPT !.now[c] = sym.clock, !.pc[c] = "done",
                               !.ret[c] = sym.cachedSymbols]
       ELSE sym' = [sym EXCEPT !.now[c] = sym.clock, !.pc[c] = "fetch", !.fetches = @ + 1]

\* the page arrives: the options are stored with the now of the call
SymFetchResolves(c, symbols) ==
  /\ sym.pc[c] = "fetch"
  /\ sym' = [sym EXCEPT !.cachedSymbols = [stored |-> TRUE, list |-> symbols],
                        !.cachedSymbolsTimestamp = sym.now[c],
                        !.ret[c] = [stored |-> TRUE, list |-> symbols],
                        !.pc[c] = "done"]

\* axios.get rejects: the call rejects, nothing is stored
SymFetchRejects(c) ==
  /\ sym.pc[c] = "fetch"
  /\ sym' = [sym EXCEPT !.pc[c] = "threw"]

SymNext ==
  \/ OnlySym /\ SymTick
  \/ OnlySym /\ \E c \in SymCalls : GetAllSymbols(c)
  \/ OnlySym /\ \E c \in SymCalls, symbols \in SymbolLists : SymFetchResolves(c, symbols)
  \/ OnlySym /\ \E c \in SymCalls : SymFetchRejects(c)

(***************************************************************************)
(* The row callback of scrapePageForSymbol (rows.each) on one row of the   *)
(* table, and parseNumber.  A text is the sequence of its characters.      *)
(***************************************************************************)
\* null, and the number that parseFloat read from the digits
NoNumber == [num |-> FALSE, neg |-> FALSE, digits |-> <<>>]

Digits == {"0", "1", "2", "3", "4", "5", "6", "7", "8", "9"}

\* str.replace(/,/g, '')
RECURSIVE RemoveCommas(_)
RemoveCommas(s) ==
  IF s = <<>> THEN s
  ELSE IF Head(s) = "," THEN RemoveCommas(Tail(s))
  ELSE <<Head(s)>> \o RemoveCommas(Tail(s))

\* the digits that a text starts with
RECURSIVE DigitPrefix(_)
DigitPrefix(s) ==
  IF s = <<>> \/ Head(s) \notin Digits THEN <<>>
  ELSE <<Head(s)>> \o DigitPrefix(Tail(s))

\* parseFloat on a text without a decimal point: a sign and the leading digits; NaN (here
\* NoNumber, as parseNumber turns NaN into null) when there is no digit
parseFloat(s) ==
  LET neg == s # <<>> /\ Head(s) = "-"
      digits == DigitPrefix(IF neg THEN Tail(s) ELSE s)
  IN  IF digits = <<>> THEN NoNumber ELSE [num |-> TRUE, neg |-> neg, digits |-> digits]

parseNumber(str) ==
  LET cleaned == trim(RemoveCommas(str))
  IN  IF str = <<>> \/ cleaned = <<>> \/ cleaned = <<"-">> THEN NoNumber
      ELSE parseFloat(cleaned)

\* the texts of a date cell and of a price cell, as $(el).text().trim() leaves them
DateCells == {<<>>, <<"1", "2", "/", "0", "9">>}
PriceCells == {<<>>, <<"-">>, <<"n", "a">>, <<"1", ",", "2", "0", "5">>}

\* the rows of the table: a row with a colspan cell (first and last cell), a row without
\* cells, and a row of date, open, high, low, close
TableRows ==
  [colspan : {TRUE}, cells : [1 .. 2 -> DateCells \cup {<<"H", "o", "l">>}]]
    \cup [colspan : {FALSE}, cells : {<<>>}]
    \cup [colspan : {FALSE},
          cells : {<<d>> \o p : d \in DateCells, p \in [1 .. 4 -> PriceCells]}]

TableInit ==
  tab \in [row : TableRows, pc : {"row"}, result : {<<>>}]

\* the callback of rows.each on the row
TableRow ==
  /\ tab.pc = "row"
  /\ tab' =
       [tab EXCEPT
          !.pc = "done",
          !.result =
            IF tab.row.colspan
              THEN <<[date |-> tab.row.cells[1], event |-> tab.row.cells[Len(tab.row.cells)],
                      open |-> NoNumber, high |-> NoNumber, low |-> NoNumber,
                      close |-> NoNumber]>>
            ELSE IF tab.row.cells = <<>> THEN <<>>
            ELSE LET rowData == [date |-> tab.row.cells[1], event |-> <<>>,
                                 open |-> parseNumber(tab.row.cells[2]),
                                 high |-> parseNumber(tab.row.cells[3]),
                                 low |-> parseNumber(tab.row.cells[4]),
                                 close |-> parseNumber(tab.row.cells[5])]
                 IN  IF /\ rowData.date # <<>>
                        /\ \/ rowData.open # NoNumber \/ rowData.close # NoNumber
                           \/ rowData.high # NoNumber \/ rowData.low # NoNumber
                       THEN <<rowData>>
                       ELSE <<>>]

TableNext ==
  \/ OnlyTable /\ TableRow

(***************************************************************************)
(* The specifications.  A part that a specification does not move rests in *)
(* one of its initial states.                                              *)
(***************************************************************************)
LockRest == LockInit
PushRest ==
  /\ PushInit
  /\ envFlags = [catLang |-> FALSE, legacy |-> FALSE]
  /\ runLang = "en"
  /\ rows = [r \in Runs |-> IF r = 1 THEN AllRows ELSE <<>>]
NewsRest == NewsInit /\ nlang = "en" /\ existingLinks = {}
HistRest == HistInit /\ maxRows = DEFAULT_MAX_ROWS
PoolRest == PoolInit
FilterRest == FilterInit /\ knownLinks = {}
RetryRest == RetryInit /\ rtArgs = [retries |-> DEFAULT_RETRIES, delayMs |-> DEFAULT_DELAY_MS]
CoreRest == LockRest /\ PushRest /\ NewsRest /\ HistRest /\ PoolRest /\ FilterRest
DateRest == DateInit /\ dDate = EmptyText /\ dLang = "en" /\ dNow = DateUTC(2025, 8, 12, 3, 0)
AuthorRest == AuthorInit /\ aRaw = <<>>
BarsRest == BarsInit /\ barData = <<>>
CalRowsRest == CalRowsInit /\ trs = <<>>
CalRest == CalInit
BrowserRest == BrowserInit
SnapRest == SnapInit
ConvergeRest == ConvergeInit
LangFilterRest ==
  lf = [lang |-> "en", item |-> [detail |-> <<>>, summary |-> <<>>, title |-> <<>>],
        pc |-> "detailed", kept |-> TRUE]
SymRest == SymInit
TableRest ==
  tab = [row |-> [colspan |-> FALSE, cells |-> <<>>], pc |-> "row", result |-> <<>>]
LateRest ==
  SnapRest /\ ConvergeRest /\ LangFilterRest /\ SymRest /\ TableRest
SideRest ==
  RetryRest /\ DateRest /\ AuthorRest /\ BarsRest /\ CalRowsRest /\ CalRest /\ BrowserRest

InitLock == LockInit /\ PushRest /\ NewsRest /\ HistRest /\ PoolRest /\ FilterRest /\ SideRest
  /\ LateRest
SpecLock == InitLock /\ [][LockNext]_vars

InitPush == PushInit /\ LockRest /\ NewsRest /\ HistRest /\ PoolRest /\ FilterRest /\ SideRest
  /\ LateRest
SpecPush == InitPush /\ [][PushNext]_vars

InitNews == NewsInit /\ LockRest /\ PushRest /\ HistRest /\ PoolRest /\ FilterRest /\ SideRest
  /\ LateRest
SpecNews == InitNews /\ [][NewsNext]_vars

InitHist == HistInit /\ LockRest /\ PushRest /\ NewsRest /\ PoolRest /\ FilterRest /\ SideRest
  /\ LateRest
SpecHist == InitHist /\ [][HistNext]_vars

InitEndless ==
  /\ NewsInit /\ existingLinks = {}
  /\ LockRest /\ PushRest /\ HistRest /\ PoolRest /\ FilterRest /\ SideRest /\ LateRest
SpecEndless == InitEndless /\ [][EndlessNext]_vars

InitPool == PoolInit /\ LockRest /\ PushRest /\ NewsRest /\ HistRest /\ FilterRest /\ SideRest
  /\ LateRest
SpecPool == InitPool /\ [][PoolNext]_vars

InitFilter ==
  FilterInit /\ LockRest /\ PushRest /\ NewsRest /\ HistRest /\ PoolRest /\ SideRest /\ LateRest
SpecFilter == InitFilter /\ [][FilterNext]_vars

InitRetry ==
  /\ RetryInit /\ CoreRest /\ DateRest /\ AuthorRest /\ BarsRest /\ CalRowsRest /\ CalRest
  /\ BrowserRest /\ LateRest
SpecRetry == InitRetry /\ [][RetryNext]_vars

InitDate ==
  /\ DateInit /\ CoreRest /\ RetryRest /\ AuthorRest /\ BarsRest /\ CalRowsRest /\ CalRest
  /\ BrowserRest /\ LateRest
SpecDate == InitDate /\ [][DateNext]_vars

InitAuthor ==
  /\ AuthorInit /\ CoreRest /\ RetryRest /\ DateRest /\ BarsRest /\ CalRowsRest /\ CalRest
  /\ BrowserRest /\ LateRest
SpecAuthor == InitAuthor /\ [][AuthorNext]_vars

InitBars ==
  /\ BarsInit /\ CoreRest /\ RetryRest /\ DateRest /\ AuthorRest /\ CalRowsRest /\ CalRest
  /\ BrowserRest /\ LateRest
SpecBars == InitBars /\ [][BarsNext]_vars

InitCalRows ==
  /\ CalRowsInit /\ CoreRest /\ RetryRest /\ DateRest /\ AuthorRest /\ BarsRest /\ CalRest
  /\ BrowserRest /\ LateRest
SpecCalRows == InitCalRows /\ [][CalRowsNext]_vars

InitCal ==
  /\ CalInit /\ CoreRest /\ RetryRest /\ DateRest /\ AuthorRest /\ BarsRest /\ CalRowsRest
  /\ BrowserRest /\ LateRest
SpecCal == InitCal /\ [][CalNext]_vars

InitBrowser ==
  /\ BrowserInit /\ CoreRest /\ RetryRest /\ DateRest /\ AuthorRest /\ BarsRest /\ CalRowsRest
  /\ CalRest /\ LateRest
SpecBrowser == InitBrowser /\ [][BrowserNext]_vars

InitSnap ==
  SnapInit /\ CoreRest /\ SideRest /\ ConvergeRest /\ LangFilterRest /\ SymRest /\ TableRest
SpecSnap == InitSnap /\ [][SnapNext]_vars

InitConverge ==
  ConvergeInit /\ CoreRest /\ SideRest /\ SnapRest /\ LangFilterRest /\ SymRest /\ TableRest
SpecConverge == InitConverge /\ [][ConvergeNext]_vars

InitLangFilter ==
  LangFilterInit /\ CoreRest /\ SideRest /\ SnapRest /\ ConvergeRest /\ SymRest /\ TableRest
SpecLangFilter == InitLangFilter /\ [][LangFilterNext]_vars

InitSym ==
  SymInit /\ CoreRest /\ SideRest /\ SnapRest /\ ConvergeRest /\ LangFilterRest /\ TableRest
SpecSym == InitSym /\ [][SymNext]_vars

InitTable ==
  TableInit /\ CoreRest /\ SideRest /\ SnapRest /\ ConvergeRest /\ LangFilterRest /\ SymRest
SpecTable == InitTable /\ [][TableNext]_vars

Init ==
  /\ LockInit /\ PushInit /\ NewsInit /\ HistInit /\ PoolInit /\ FilterInit /\ RetryInit
  /\ DateInit /\ AuthorInit /\ BarsInit /\ CalRowsInit /\ CalInit /\ BrowserInit
  /\ SnapInit /\ ConvergeInit /\ LangFilterInit /\ SymInit /\ TableInit
Next ==
  \/ LockNext \/ PushNext \/ NewsNext \/ HistNext \/ PoolNext \/ FilterNext \/ RetryNext
  \/ DateNext \/ AuthorNext \/ BarsNext \/ CalRowsNext \/ CalNext \/ BrowserNext
  \/ SnapNext \/ ConvergeNext \/ LangFilterNext \/ SymNext \/ TableNext
Spec == Init /\ [][Next]_vars

(***************************************************************************)
(* withLock: the claims                                                    *)
(***************************************************************************)
Running == {c \in Calls : lpc[c] = "fn"}

\* C1: a withLock call whose SET NX meets a stored, unexpired entry returns at once:
\* it settles as skipped (no error), fn is not executed for it, and the stored entry
\* (token and remaining TTL) is left as it was.
C1_SecondCallSkips ==
  [][\A c \in Calls :
       (lpc[c] = "idle" /\ lpc'[c] # "idle" /\ lock # NoLock)
         => /\ lpc'[c] = "done"
            /\ lres'[c] = "skipped"
            /\ fnOut'[c] = "none"
            /\ fnRuns' = fnRuns
            /\ lock' = lock]_vars

\* two overlapping calls: one runs fn, the other has returned skipped, fn ran once
C1_Witness ==
  \E c, d \in Calls :
    /\ lpc[c] = "fn" /\ lock.tok = Token(c)
    /\ lpc[d] = "done" /\ lres[d] = "skipped"
    /\ fnRuns = 1

\* C2 as stated: at most one execution of the job is running at any time, also when a
\* job runs longer than its lock TTL.
C2_OneJobAtATime == Cardinality(Running) <= 1

\* C2, amended: at most one execution of the job is running at any time as long as no
\* lock entry has run out of TTL before its holder released it.
C2_OneJobUnlessLapsed == ~lapsed => Cardinality(Running) <= 1

\* a second execution runs after the first released, a third call was skipped meanwhile
C2_Witness ==
  /\ ~lapsed
  /\ fnRuns = 2
  /\ Cardinality(Running) = 1
  /\ \E d \in Calls : lres[d] = "skipped"

\* C3: no DEL of a withLock call removes an entry whose token another call wrote.
C3_OnlyOwnerDeletes == \A e \in delLog : e[2] = Token(e[1])

Sends(r, k) == {e \in sendLog : e.run = r /\ e.link = k}
InPushNews(r, k) ==
  rpc[r] \in {"sendLang", "sendCat", "sendLegacy"} /\ CurLink(r) = k
\* run r has called pushNews for the item at k
Pushed(r, k) == Sends(r, k) # {} \/ InPushNews(r, k)
\* run r is through with the row at k
DoneWith(r, k) == \E i \in 1 .. Len(Rows(r)) : Rows(r)[i] = k /\ i < ri[r]
Dispatchers(k) == {r \in Runs : pushState[r][k] # "none"}
Claimers(k) == {r \in Runs : pushState[r][k] = "claimed"}

\* C5: of the runs that execute the dispatch step for the same key, only one that
\* claimed the marker calls pushNews; while no marker has run out exactly one run claims
\* it and calls pushNews, and every other run observes the marker and sends nothing.
C5_OneDeliveryPerKey ==
  \A k \in Links :
    /\ \A r \in Runs : Pushed(r, k) => r \in Claimers(k)
    /\ Cardinality(Claimers(k)) <= 1 + expiries
    /\ (expiries = 0 /\ Dispatchers(k) # {})
         => /\ Cardinality(Claimers(k)) = 1
            /\ \A r \in Claimers(k) : DoneWith(r, k) => Cardinality(Sends(r, k)) >= 1
            /\ \A r \in Dispatchers(k) \ Claimers(k) :
                 pushState[r][k] = "dup" /\ ~Pushed(r, k)

\* both runs went through the dispatch step for one key: one delivered, one saw the marker
C5_Witness ==
  \E k \in Links, r, q \in Runs :
    /\ expiries = 0
    /\ pushState[r][k] = "claimed" /\ DoneWith(r, k) /\ Sends(r, k) # {}
    /\ pushState[q][k] = "dup" /\ DoneWith(q, k) /\ Sends(q, k) = {}

FailedSend(k) == \E e \in sendLog : e.link = k /\ ~e.ok

\* C6: a rejected fcm.send leaves the markers and the news table as they are, and
\* while the marker claimed for the item has not run out no further send is made for
\* the item, by the same run or by another.
C6_FailedSendKeepsClaim ==
  [][\A k \in Links :
       /\ (\E e \in sendLog' \ sendLog : e.link = k /\ ~e.ok)
            => (marker' = marker /\ table' = table)
       /\ (FailedSend(k) /\ expiries = 0)
            => /\ k \in marker
               /\ {e \in sendLog' : e.link = k} = {e \in sendLog : e.link = k}]_vars

\* the delivery for k failed in run r; run q came to k afterwards and found the marker
C6_Witness ==
  \E k \in Links, r, q \in Runs :
    /\ \E e \in Sends(r, k) : ~e.ok
    /\ expiries = 0 /\ k \in marker /\ k \in db
    /\ rpc[r] = "done"
    /\ pushState[q][k] = "dup" /\ rpc[q] = "done"

\* C7: a run invokes alreadyPushed and pushNews for an item only after its write of
\* the item's row has succeeded (the batch upsert or the row's own write in the
\* fallback); for a row whose write failed it claims no marker and sends nothing.
C7_PushOnlyAfterWrite ==
  \A r \in Runs, k \in Links :
    /\ (pushState[r][k] # "none" \/ Pushed(r, k)) => rowState[r][k] = "written"
    /\ rowState[r][k] = "writeFailed" => (pushState[r][k] = "none" /\ Sends(r, k) = {})

\* a fallback pass in which the write of one row failed and another row was written
\* and pushed
C7_Witness ==
  \E r \in Runs, k, j \in Links :
    /\ rpath[r] = "fallback" /\ rpc[r] = "done"
    /\ rowState[r][k] = "writeFailed" /\ k \notin marker
    /\ rowState[r][j] = "written" /\ pushState[r][j] = "claimed" /\ Sends(r, j) # {}

SentTo(r, k, topic) == \E e \in Sends(r, k) : e.topic = topic
SentOk(r, k, topic) == \E e \in Sends(r, k) : e.topic = topic /\ e.ok
CategoryTopics(k) == {topicCatLang(Category(k), runLang), topicLegacy(Category(k))}

\* C8 as stated: for every item whose marker was claimed the payload is sent to the
\* category topic and to the language topic, whatever happens to the other send.
C8_BothTopicsAlways ==
  \A r \in Runs, k \in Links :
    (pushState[r][k] = "claimed" /\ DoneWith(r, k))
      => /\ SentTo(r, k, topicLangOnly(runLang))
         /\ \E t \in CategoryTopics(k) : SentTo(r, k, t)

\* C8, amended: for every item whose marker was claimed the payload is sent to the
\* language topic news_<lang>; it is sent to the category-and-language topic only when
\* FCM_TOPIC_CATEGORY_LANG is on and the language send succeeded, and to the bare
\* category topic only when FCM_COMPAT_GLOBAL_TOPIC is on and every earlier send
\* succeeded: a failed send ends pushNews and prevents the sends after it.
C8_LangTopicThenOptionalCategory ==
  \A r \in Runs, k \in Links :
    /\ (pushState[r][k] = "claimed" /\ DoneWith(r, k))
         => SentTo(r, k, topicLangOnly(runLang))
    /\ SentTo(r, k, topicCatLang(Category(k), runLang))
         => (envFlags.catLang /\ SentOk(r, k, topicLangOnly(runLang)))
    /\ SentTo(r, k, topicLegacy(Category(k)))
         => /\ envFlags.legacy
            /\ SentOk(r, k, topicLangOnly(runLang))
            /\ envFlags.catLang => SentOk(r, k, topicCatLang(Category(k), runLang))
    /\ (DoneWith(r, k) /\ SentOk(r, k, topicLangOnly(runLang)) /\ envFlags.catLang)
         => SentTo(r, k, topicCatLang(Category(k), runLang))

\* the category topic is switched on, the language send failed, and the run went on to
\* the next row without a send to the category topic
C8_Witness ==
  \E r \in Runs, k \in Links :
    /\ envFlags.catLang
    /\ pushState[r][k] = "claimed" /\ DoneWith(r, k)
    /\ \E e \in Sends(r, k) : e.topic = topicLangOnly(runLang) /\ ~e.ok
    /\ ~SentTo(r, k, topicCatLang(Category(k), runLang))

\* C18: when the news reconcile runs twice with the same items (one run after the
\* other, or two runs that both loaded the persisted links before either wrote), the
\* table has exactly one row for every link that a run wrote, and never more than one.
C18_OneRowPerLink ==
  \A k \in Links :
    /\ table[k] <= 1
    /\ (\E r \in Runs : rowState[r][k] = "written") => table[k] = 1

\* two runs wrote the row of the same link, the second write met the row of the first
C18_Witness ==
  \E k \in Links, r, q \in Runs :
    /\ r # q
    /\ rowState[r][k] = "written" /\ rowState[q][k] = "written"
    /\ rpc[r] = "done" /\ rpc[q] = "done"
    /\ table[k] = 1

\* C20: when the bulk write of a chunk fails, every row of the chunk is written by
\* itself; a row whose own write fails is skipped, and the rows after it in the chunk
\* and the chunks after it are still written: a run ends only with every row handled.
C20_FallbackWritesEachRow ==
  \A r \in Runs :
    /\ \A k \in Range(Rows(r)) :
         /\ DoneWith(r, k) => rowState[r][k] \in {"written", "writeFailed"}
         /\ rowState[r][k] = "written" => table[k] >= 1
         /\ rowState[r][k] = "writeFailed" => k \in bulkFailed[r]
    /\ rpc[r] = "done" => \A k \in Range(Rows(r)) : DoneWith(r, k)

\* the bulk write of the first chunk failed, the write of its first row failed too, its
\* second row was written by itself, and the row of the next chunk was written
C20_Witness ==
  \E r \in Runs :
    /\ rpc[r] = "done" /\ Rows(r) = AllRows
    /\ {1, 2} \subseteq bulkFailed[r]
    /\ rowState[r][1] = "writeFailed" /\ table[1] = 0
    /\ rowState[r][2] = "written"
    /\ rowState[r][3] = "written"

(***************************************************************************)
(* pagination: the claims                                                  *)
(***************************************************************************)
\* C9: when every list page of a category comes without items, the loop of the
\* category ends with the 3rd page request: it is not left before it and no 4th page is
\* requested.
C9_EmptySourceThreeRequests ==
  /\ \A n \in emptyCatPages : n = 3
  /\ (npc = "page" /\ catEmpty) => catReqs < 3

\* the crawl is over and the categories, all of them empty, took 3 requests each
C9_Witness == npc = "done" /\ emptyCatPages = {3} /\ allNewItems = <<>>

\* the while loop of the current category is left by the step
LeftCat == ncat' # ncat \/ npc' = "done"

\* C11: a page-count ceiling bounds the page requests of a category, also for a source
\* that serves a never-seen item on every page: no category is asked for more than
\* MAX_PAGES_PER_CAT pages.
C11_PageCeiling == catReqs <= MAX_PAGES_PER_CAT

\* C12 as stated: a page without fresh items (challenge page, failed fetch, nothing
\* fresh) adds one to emptyStreak, a page with at least one fresh item resets it to 0,
\* and the category is left exactly when the counter reaches 3.
C12_FreshPageResetsStreak ==
  [][/\ seenLinks' = seenLinks
          => IF emptyStreak + 1 >= STREAK_LIMIT THEN LeftCat
             ELSE ~LeftCat /\ emptyStreak' = emptyStreak + 1
     /\ seenLinks' # seenLinks => (~LeftCat /\ emptyStreak' = 0)]_vars

\* C12, amended: a page without fresh items adds one to emptyStreak and the category is
\* left exactly when that brings the counter to 3; a page with at least one fresh item
\* sets the counter to 0 when its detail fetches all succeed and to 1 when one of them
\* is rejected, and never ends the category.
C12_StreakCountsDetailFailure ==
  [][/\ seenLinks' = seenLinks
          => IF emptyStreak + 1 >= STREAK_LIMIT THEN LeftCat
             ELSE ~LeftCat /\ emptyStreak' = emptyStreak + 1
     /\ seenLinks' # seenLinks
          => /\ ~LeftCat
             /\ emptyStreak' = (IF lastFailure' = "detail" THEN 1 ELSE 0)]_vars

\* two pages without fresh items, then a page with a fresh item whose detail fetch was
\* rejected: the counter went 1, 2, 1 and the category goes on
C12_Witness ==
  /\ npc = "page" /\ catReqs = 3 /\ start = 3 * NEWS_PAGE_SIZE
  /\ lastFailure = "detail" /\ emptyStreak = 1
  /\ Cardinality(seenLinks) = 1 /\ allNewItems = <<>>

\* C13: a list page that cannot be fetched does not abort the run: nothing collected is
\* lost, and the loop goes on with the next offset of the category or, at the streak
\* threshold, with the next category; only after the last category the run ends, with
\* the items collected so far as the rows to persist.
C13_FailedPageGoesOn ==
  [][lastFailure' = "page"
       => /\ allNewItems' = allNewItems /\ seenLinks' = seenLinks
          /\ IF emptyStreak + 1 < STREAK_LIMIT
               THEN npc' = "page" /\ ncat' = ncat /\ start' = start + NEWS_PAGE_SIZE
             ELSE IF ncat < NumCats
               THEN npc' = "page" /\ ncat' = ncat + 1 /\ start' = 0
             ELSE npc' = "done"]_vars

\* a failed fetch ended a category in which an item had been collected: the item is
\* kept and the next category is crawled
C13_Witness ==
  /\ npc = "page" /\ ncat = 2 /\ catReqs = 0
  /\ lastFailure = "page"
  /\ allNewItems # <<>>

\* C14: the loop leaves a category after a page that parses to fewer items than the
\* page size 10 (stated for the pages that have an item at all: on the pages without
\* items the empty streak decides).
C14_ShortPageStops ==
  [][\A items \in PageItems :
       (/\ 0 < Len(items) /\ Len(items) < NEWS_PAGE_SIZE
        /\ \/ PageStale(items)
           \/ PageDetailFails(items)
           \/ \E dropped \in Droppable(items) : PageFresh(items, dropped))
         => LeftCat]_vars

\* C15: at every point of a run at most 4 detail-fetch tasks are in flight, the tasks
\* of calls that have rejected included.
C15_AtMostFourInFlight == executing + orphans <= DETAIL_LIMIT

\* C16: an item is classified fresh iff its link is neither in the set of persisted
\* links loaded at the start of the run nor in the in-run seen set; with {A, B}
\* persisted and a page {A, B, C} only C is fresh; no link persisted at the start of
\* the run ever goes to a detail task, and so to the rows, of the run.
C16_FreshIffUnknown ==
  /\ [](runSeen \cap knownLinks = {})
  /\ [][/\ Range(fresh') =
             {k \in Range(pageItems') : k \notin knownLinks /\ k \notin runSeen}
        /\ runSeen' = runSeen \cup Range(fresh')
        /\ (knownLinks = {1, 2} /\ pageItems' = <<1, 2, 3>> /\ 3 \notin runSeen)
             => fresh' = <<3>>]_vars

\* links 1 and 2 were persisted when the run started, the page lists 1, 2, 3: 3 alone
\* is fresh
C16_Witness ==
  /\ knownLinks = {1, 2}
  /\ pageItems = <<1, 2, 3>>
  /\ fresh = <<3>>
  /\ runSeen = {3}

NoDup(q) == \A i, j \in 1 .. Len(q) : q[i] = q[j] => i = j

\* C17: no link is queued for detail-fetch twice in a run: the fresh items of a page
\* are pairwise different links and none of them was fresh on an earlier page.
C17_NoLinkQueuedTwice ==
  [][NoDup(fresh') /\ Range(fresh') \cap runSeen = {}]_vars

\* C19: an item that is sighted again while its link is already persisted is upserted
\* with the values of the later run; the run writes exactly the rows of its fresh
\* items, so the sighted item has to be among them.
C19_RepeatSightingWritten ==
  \A k \in Range(pageItems) : k \in knownLinks => k \in Range(fresh)

\* C10: when every page of a symbol comes back empty, scrapeAllDataForSymbol ends
\* after exactly 3 calls of scrapePageForSymbol.
C10_HistEmptySourceThreeRequests ==
  (hpc = "done" /\ hAllEmpty /\ hReqs > 0) => hReqs = 3

(***************************************************************************)
(* retryRequest: the claims                                                *)
(***************************************************************************)
Pow2(n) == 2 ^ n
Failures == {i \in 1 .. Len(rtHist) : rtHist[i] # "ok"}

\* C21: with the default retry policy retryRequest invokes fn at most 3 times in
\* total, and not again once an invocation has succeeded.
C21_AtMostThreeAttempts ==
  /\ rtArgs.retries = DEFAULT_RETRIES => Len(rtHist) <= 3
  /\ \A i \in 1 .. Len(rtHist) : rtHist[i] = "ok" => i = Len(rtHist)

\* C21 as amended: fn is invoked at most retries + 1 times, 4 with the default policy
\* (the first attempt and 3 retries), exactly that often when every attempt fails, and
\* not again once an invocation has succeeded.
C21_AtMostRetriesPlusOneAttempts ==
  /\ Len(rtHist) <= rtArgs.retries + 1
  /\ rtArgs.retries = DEFAULT_RETRIES => Len(rtHist) <= 4
  /\ rtPc = "rejected" => Len(rtHist) = rtArgs.retries + 1 /\ Failures = 1 .. Len(rtHist)
  /\ \A i \in 1 .. Len(rtHist) : rtHist[i] = "ok" => i = Len(rtHist) /\ rtPc = "resolved"
  /\ rtPc = "resolved" => rtHist # <<>> /\ rtHist[Len(rtHist)] = "ok"

C21_Witness ==
  /\ rtPc = "rejected"
  /\ rtArgs.retries = DEFAULT_RETRIES
  /\ Len(rtHist) = 4
  /\ Failures = 1 .. 4

\* C22: the delays between consecutive attempts are base, 2*base, 4*base, ..., one
\* after every failed attempt that is followed by another attempt, and the error the
\* call rejects with is the error of the last attempt.
C22_DoublingDelayLastError ==
  /\ \A i \in 1 .. Len(rtWaits) : rtWaits[i] = rtArgs.delayMs * Pow2(i - 1)
  /\ Len(rtWaits) = Cardinality(Failures) - (IF rtPc \in {"delay", "rejected"} THEN 1 ELSE 0)
  /\ rtPc = "delay" => rtDelayMs = rtArgs.delayMs * Pow2(Len(rtWaits))
  /\ rtPc = "rejected" <=> rtThrown # 0
  /\ rtThrown # 0 => rtThrown = Len(rtHist) /\ rtHist[rtThrown] # "ok"

C22_Witness ==
  /\ rtPc = "rejected"
  /\ rtArgs = [retries |-> DEFAULT_RETRIES, delayMs |-> DEFAULT_DELAY_MS]
  /\ rtWaits = <<500, 1000, 2000>>
  /\ rtHist = <<"timeout", "timeout", "timeout", "http">>
  /\ rtThrown = 4

(***************************************************************************)
(* publish timestamp: the claims                                           *)
(***************************************************************************)
\* C23: when the display date cannot be parsed at all and the item carries no valid
\* publishedAt, published_at of the row built by buildNewsRow is the current time.
C23_UnparsedDateFallsBackToNow ==
  (dpc = "row" /\ parsePublishedAt(dDate, dLang) = Null /\ ~dPublishedAt.valid)
    => dRowPub = DateAt(dNow)

Parsed == dpc # "card" /\ dPublishedAt.valid
LocalHour == IF dDate.hm # <<>> THEN dDate.hm[1] ELSE 12
LocalMinute == IF dDate.hm # <<>> THEN dDate.hm[2] ELSE 0
\* 00:00 UTC of the calendar day written on the card
CardDay ==
  LET map == IF MonRaw(dDate.mon) \in DOMAIN MONTHS_EN THEN MONTHS_EN ELSE MONTHS_ID
  IN DateUTC(dDate.year, map[MonRaw(dDate.mon)], dDate.day, 0, 0)
MinutesPerDay == 24 * 60

\* C24: parsePublishedAt reads the display date as local time at UTC+7 and returns the
\* instant 7 hours earlier: "12 September 2025 08:38" (en) is 2025-09-12T01:38:00Z
\* (29294018 minutes after the epoch); without a time component the local time is 12:00
\* (05:00Z of the same day); a local time before 07:00 is on the previous UTC day.
C24_LocalTimeAtUtcPlus7 ==
  Parsed =>
    /\ dPublishedAt.time = CardDay + LocalHour * 60 + LocalMinute - 7 * 60
    /\ (dDate = [shape |-> "dmy", day |-> 12, mon |-> "September", year |-> 2025,
                 hm |-> <<8, 38>>] /\ dLang = "en") => dPublishedAt.time = 29294018
    /\ dDate.hm = <<>> => dPublishedAt.time = CardDay + 5 * 60
    /\ IF LocalHour < 7
         THEN /\ CardDay - MinutesPerDay <= dPublishedAt.time
              /\ dPublishedAt.time < CardDay
         ELSE /\ CardDay <= dPublishedAt.time
              /\ dPublishedAt.time < CardDay + MinutesPerDay
    /\ dpc = "row" => dRowPub = dPublishedAt

C24_Witness ==
  /\ dpc = "row"
  /\ dDate = [shape |-> "dmy", day |-> 12, mon |-> "September", year |-> 2025, hm |-> <<8, 38>>]
  /\ dLang = "en"
  /\ dRowPub = DateAt(29294018)

(***************************************************************************)
(* author: the claims                                                      *)
(***************************************************************************)
\* the lower-cased candidate after the alias correction
Candidate(raw) ==
  LET t == trim(raw)
  IN Aliased(toLowerCase(IF ParenMatches(t) # {} THEN ParenGroup(t) ELSE t))

\* C25: normalizeAuthorInitial returns a code exactly when the lower-cased candidate,
\* after the alias correction, is 2 to 6 letters, not deny-listed and allow-listed, and
\* then returns that candidate: "(WTI)" gives null, "(AZF)" gives "azf", which
\* toAuthorName resolves to one fixed display name, "(xx)" gives null; the alias
\* correction comes first ("ads" and "(ayiu)" give "ayu").
C25_AuthorCodeOnlyFromAllowList ==
  apc # "raw" =>
    /\ aAuthor # NoAuthor <=> /\ IsCode(Candidate(aRaw))
                              /\ Candidate(aRaw) \notin AUTHOR_BLACKLIST
                              /\ Candidate(aRaw) \in AUTHOR_ALLOW
    /\ aAuthor # NoAuthor => aAuthor = Candidate(aRaw)
    /\ aRaw = <<"(", "W", "T", "I", ")">> => aAuthor = NoAuthor
    /\ aRaw = <<"(", "A", "Z", "F", ")">> => aAuthor = <<"a", "z", "f">>
    /\ aRaw = <<"(", "x", "x", ")">> => aAuthor = NoAuthor
    /\ aRaw \in {<<"a", "d", "s">>, <<"(", "a", "y", "i", "u", ")">>} => aAuthor = <<"a", "y", "u">>
    /\ apc = "named" => /\ aAuthor = <<"a", "z", "f">> => aName = "Nova"
                        /\ aAuthor = NoAuthor => aName = ""
                        /\ aAuthor # NoAuthor => aName # ""

C25_Witness ==
  /\ apc = "named"
  /\ aRaw = <<"(", "A", "Z", "F", ")">>
  /\ aAuthor = <<"a", "z", "f">>
  /\ aName = "Nova"

(***************************************************************************)
(* historical_data: the claims                                             *)
(***************************************************************************)
\* C26: a row that exists for a (symbol, date) is left unchanged when the same
\* (symbol, date) is scraped again with other values, and there is at most one row per
\* (symbol, date) at any time.
C26_BarCreatedOnceNeverUpdated ==
  /\ [](\A k \in BarKeys : Len(bars[k]) <= 1)
  /\ [][\A k \in BarKeys : bars[k] # <<>> => bars'[k] = bars[k]]_vars

C26_Witness ==
  \E r, q \in BarRuns :
    /\ r # q
    /\ bpc[r] = "done" /\ bpc[q] = "done"
    /\ barData = <<1, 1>>
    /\ bars[1] = <<BarValues(r, 1)>>

(***************************************************************************)
(* calendar table parser: the claims                                       *)
(***************************************************************************)
\* a row that takes the event branch of the loop: not a detail row, 4 cells or more
IsEventRow(tr) == ~isDetailRow(tr) /\ tr.cells >= 4

\* C27: a detail row is attached only to the event row that immediately precedes it
\* in document order, never to an earlier event row: no event row stands between an
\* event and the detail row attached to it.
C27_DetailGoesToNearestEventRow ==
  \A e \in 1 .. Len(calOut) :
    calOut[e].details # 0 =>
      /\ calOut[e].row < calOut[e].details
      /\ \A j \in calOut[e].row + 1 .. calOut[e].details - 1 : ~IsEventRow(trs[j])

(***************************************************************************)
(* calendar queue: the claims                                              *)
(***************************************************************************)
QueueIds(i) == [k \in 1 .. Len(calQueue[i]) |-> calQueue[i][k].id]

\* C28: on every instance the tasks given to enqueueCal run one at a time and in the
\* order they were given: at most one task is in flight, the tasks started are the
\* first tasks given, in that order, and the others wait in the queue in that order.
C28_OneAtATimeInOrder ==
  \A i \in Insts :
    /\ Cardinality(calActive[i]) <= 1
    /\ calSubmitted[i] = calStarted[i] \o QueueIds(i)
    /\ calRunning[i] <=> calActive[i] # {}
    /\ \A t \in calActive[i] : t.id = calStarted[i][Len(calStarted[i])]

C28_Witness ==
  \E i \in Insts :
    /\ calStarted[i] = <<1, 2>>
    /\ calQueue[i] = <<[id |-> 3, origin |-> "api"]>>
    /\ \E t \in calActive[i] : t.id = 2 /\ t.origin = "prewarm"

Scraping == {i \in Insts : \E t \in calActive[i] : t.scraping}

\* C29: every calendar scrape, whatever submitted it, runs inside the queue of its
\* instance and holds lock:cal:GLOBAL, so at most one instance scrapes at a time.
C29_EveryScrapeHoldsGlobalLock ==
  /\ \A i \in Insts : \A t \in calActive[i] : t.scraping => calLock = i
  /\ Cardinality(Scraping) <= 1

(***************************************************************************)
(* browser singleton: the claims                                           *)
(***************************************************************************)
\* C30: under any number of concurrent getBrowser calls in one process the browser is
\* launched at most once, and every caller receives the same browser: the promise of
\* that one launch.
C30_OneLaunchOneBrowser ==
  /\ Len(launched) <= 1
  /\ \A c \in PageCalls : wpc[c] # "idle" => wBrowser[c] = 1 /\ browserPromise = 1
  /\ \A c, d \in PageCalls : (wpc[c] # "idle" /\ wpc[d] # "idle") => wBrowser[c] = wBrowser[d]

C30_Witness ==
  /\ launched = <<"resolved">>
  /\ wpc[1] = "page" /\ wpc[2] = "page" /\ wpc[3] = "getBrowser" /\ wpc[4] = "done"
  /\ \A c \in PageCalls : wBrowser[c] = 1

C32_ReadNeverAnswersError == snap.resp.status # 500

\* C33: when a calendar scrape fails (scrapeCalendarPaged returns ok:false, on the first
\* page or on a later one), calendarCache[period] and the key calendar:<period> are as
\* they were before: the last successful snapshot, with no page of the failed scrape.
C33_FailedScrapeKeepsSnapshot ==
  [][(snap.pc = "pages" /\ snap'.ok = "failed")
       => /\ snap'.calendarCache = snap.calendarCache
          /\ snap'.key = snap.key]_vars

\* the second scrape failed on its second page; the snapshot of the first is still stored
C33_Witness ==
  /\ snap.ok = "failed" /\ snap.run = 2 /\ snap.p = 2 /\ snap.all = 1
  /\ snap.calendarCache = [run |-> 1, pages |-> 2]
  /\ snap.key = snap.calendarCache

(***************************************************************************)
(* Repeated runs over a fixed listing: the claim                           *)
(***************************************************************************)
\* the scheduler keeps starting runs and a run that has started goes on to its end
SpecConvergeFair == SpecConverge /\ WF_vars(ConvergeNext)

\* C34: under repeated scheduled runs against a source on which every fetch eventually
\* succeeds, every item that stays listed is eventually persisted, also an item on a
\* page that lies behind three or more pages whose items are all persisted.
C34_EveryListedItemEventuallyPersisted == <>(Listed \subseteq cv.persisted)

(***************************************************************************)
(* The language filter: the claim                                          *)
(***************************************************************************)
\* body, summary and title of the item as one text
Combined(n) == n.detail \o n.summary \o n.title

\* C35 as stated: in an id crawl a detail-fetched item is dropped exactly when the English
\* function words outnumber the Indonesian ones in the combined body, summary and title
\* text; an item of an en crawl is never dropped.
C35_DroppedIffEnglishDominatesCombined ==
  lf.pc = "pushed" =>
    IF lf.lang = "id"
      THEN ~lf.kept <=> Matches(Combined(lf.item), EN_WORDS)
                          > Matches(Combined(lf.item), ID_WORDS)
      ELSE lf.kept

\* C35, amended: the words are counted in the first non-empty of body, summary and title
\* (the body when the detail fetch returned text), not in the three together.
C35_DroppedIffEnglishDominatesFirstText ==
  lf.pc = "pushed" =>
    IF lf.lang = "id"
      THEN ~lf.kept <=> Matches(FilterText(lf.item), EN_WORDS)
                          > Matches(FilterText(lf.item), ID_WORDS)
      ELSE lf.kept

\* an item of an id crawl dropped for its body, with two Indonesian words and one English
\* word in body, summary and title together
C35_Witness ==
  /\ lf.pc = "pushed" /\ lf.lang = "id" /\ ~lf.kept
  /\ lf.item.detail # <<>>
  /\ Matches(Combined(lf.item), ID_WORDS) = 2
  /\ Matches(Combined(lf.item), EN_WORDS) = 1

(***************************************************************************)
(* getAllSymbols: the claim                                                *)
(***************************************************************************)
\* C36: once a catalog is stored, a call made at a later timestamp than the stored one
\* returns the stored catalog and sends no request, and leaves the stored catalog as it
\* is, also when the stored catalog is the empty list.
C36_StoredCatalogNeverRefreshed ==
  [][\A c \in SymCalls :
       (sym.pc[c] = "idle" /\ sym'.pc[c] # "idle" /\ sym.cachedSymbols.stored
          /\ sym.clock > sym.cachedSymbolsTimestamp)
         => /\ sym'.pc[c] = "done"
            /\ sym'.ret[c] = sym.cachedSymbols
            /\ sym'.fetches = sym.fetches
            /\ sym'.cachedSymbols = sym.cachedSymbols
            /\ sym'.cachedSymbolsTimestamp = sym.cachedSymbolsTimestamp]_vars

\* the empty catalog was stored by the only request sent, and a later call returned it
C36_Witness ==
  /\ sym.cachedSymbols = [stored |-> TRUE, list |-> <<>>]
  /\ sym.fetches = 1
  /\ \E c \in SymCalls :
       /\ sym.pc[c] = "done"
       /\ sym.now[c] > sym.cachedSymbolsTimestamp
       /\ sym.ret[c] = sym.cachedSymbols

(***************************************************************************)
(* The historical table parser: the claim                                  *)
(***************************************************************************)
\* C37: every row that scrapePageForSymbol emits has a non-empty date, and every emitted
\* row without colspan has at least one of open, high, low and close parsed to a number;
\* a row that fails this is discarded, be it a normal row or an annotation row.
C37_EmittedRowsHaveDateAndPrice ==
  \A k \in 1 .. Len(tab.result) :
    /\ tab.result[k].date # <<>>
    /\ ~tab.row.colspan => \E f \in {"open", "high", "low", "close"} : tab.result[k][f].num

(***************************************************************************)
(* A rejected detail fetch: the claim                                      *)
(***************************************************************************)
\* C38: when a detail-fetch task of a page rejects after its retries, no item of the page
\* is added to allNewItems (the items whose own fetch succeeded included), the page
\* leaves emptyStreak at 1 and the loop goes on in the category, and the fresh links of
\* the page are in seenLinks, where links stay for the rest of the run, so that no later
\* page of the run has them among its fresh items.
C38_DetailFailureDropsPage ==
  [][/\ seenLinks \subseteq seenLinks'
     /\ (npc = "page" /\ lastFailure' = "detail")
          => /\ allNewItems' = allNewItems
             /\ emptyStreak' = 1
             /\ ~LeftCat
             /\ seenLinks' # seenLinks
             /\ \A k \in seenLinks' \ seenLinks :
                  FreshOf(<<k>>, existingLinks', seenLinks') = <<>>]_vars

\* the item of an earlier page is collected; the page after it had a fresh item whose
\* detail fetch was rejected: its link is seen, the item is not collected
C38_Witness ==
  /\ lastFailure = "detail" /\ emptyStreak = 1
  /\ Len(allNewItems) = 1
  /\ Cardinality(seenLinks) = 2

(***************************************************************************)
(* The calendar queue: progress                                            *)
(***************************************************************************)
\* a task that was started settles in the end
SpecCalFair == SpecCal /\ \A i \in Insts : WF_vars(CalSettles(i))

SettledIds(i) == {calSettled[i][k].id : k \in 1 .. Len(calSettled[i])}

\* C39: every task given to enqueueCal is started in the end and its promise is settled
\* with the result or the error of the task, provided the tasks before it settle: a
\* rejecting task does not stop the queue and no task is left waiting in it.  The
\* promises settle in the order of the starts, each as its task did, and again and again
\* every task given so far has its promise settled.
C39_EveryTaskStartedAndSettled ==
  /\ [](\A i \in Insts : \A k \in 1 .. Len(calSettled[i]) :
          /\ calSettled[i][k].id = calStarted[i][k]
          /\ calSettled[i][k].promise
               = (IF calSettled[i][k].task = "returned" THEN "resolved" ELSE "rejected"))
  /\ []<>(\A i \in Insts : SettledIds(i) = Range(calSubmitted[i]))

\* three tasks of an instance have settled, the first with an error; the third was given
\* while the second, the last of the queue then, was in flight
C39_Witness ==
  \E i \in Insts :
    /\ Len(calSettled[i]) = 3
    /\ calSettled[i][1].promise = "rejected"
    /\ calSettled[i][3].promise = "resolved"
    /\ calQueue[i] = <<>> /\ ~calRunning[i]

(***************************************************************************)
(* scrapeAllDataForSymbol: termination and ceilings                        *)
(***************************************************************************)
\* a natural number that every step of the loop makes smaller: the pages left below the
\* ceiling, then the place in the loop body and the retries left for the page
HistVariant ==
  (MAX_PAGES_PER_SYMBOL - pageCount) * (HIST_RETRIES + 3)
    + (CASE hpc = "loop" -> HIST_RETRIES + 2
         [] hpc = "fetch" -> retries + 1
         [] hpc = "done" -> 0)

\* C40: scrapeAllDataForSymbol always terminates, calls scrapePageForSymbol for at most
\* 500 pages and returns at most maxRows rows, whatever the source does (a full page
\* forever, every request failing): the two counts stay under their ceilings and every
\* step lowers HistVariant, which is never negative.
C40_HistTerminatesWithinCeilings ==
  /\ [](/\ hReqs <= MAX_PAGES_PER_SYMBOL
        /\ allData <= maxRows
        /\ HistVariant >= 0)
  /\ [][HistVariant' < HistVariant]_vars

\* the source had a full page for every request and the default maxRows: the loop ended
\* at the page ceiling with 500 pages of 8 rows
C40_Witness ==
  /\ hpc = "done" /\ maxRows = DEFAULT_MAX_ROWS
  /\ hReqs = MAX_PAGES_PER_SYMBOL
  /\ allData = MAX_PAGES_PER_SYMBOL * HIST_PAGE_SIZE

====
